---- MODULE Spec2Model ----
(***************************************************************************)
(* A model of the pitz settings library: the settings store of             *)
(* src/src/store.ts (validate -> persist -> apply pipeline), the throttle  *)
(* wrapped around its apply step, and the storage adapters of              *)
(* src/src/storage.ts behind it.                                           *)
(***************************************************************************)
EXTENDS Integers, Sequences, FiniteSets, TLC

(***************************************************************************)
(* Bounds of the model.                                                    *)
(***************************************************************************)
\* calls made on the store in one behaviour
MaxOps == 3
\* store calls suspended at their storage await at the same time
MaxInFlight == 2
\* calls made on the throttled mock function in one behaviour
MaxThrottleCalls == 4
\* frames the call stack of the JavaScript engine holds
MaxCallStack == 4

\* calls in one builder chain
MaxChain == 8

(***************************************************************************)
(* Setting keys and setting values.  SettingValue = string | number |      *)
(* boolean.  A value is a record [t, n]: a number n, a boolean (n = 1 for  *)
(* true, 0 for false) or a string of length n.  Null stands for JavaScript *)
(* null/undefined, i.e. an absent key of a Record or a Map.                *)
(***************************************************************************)
Keys == {"a", "b"}

Null == [t |-> "null", n |-> 0]

VNum(x) == [t |-> "number", n |-> x]

SettingValue == {VNum(0), VNum(15)}

\* JavaScript truthiness of a value: false, 0, "" and null are falsy
Truthy(v) == v.t # "null" /\ v.n # 0

\* the empty Record<string, SettingValue>
EmptyRecord == [k \in Keys |-> Null]

\* Object.keys of a Record
ObjectKeys(rec) == {k \in Keys : rec[k] # Null}

(***************************************************************************)
(* Controllers.  schema is the zod schema of the controller: "none" when   *)
(* the controller carries no schema, "range" for z.number().min(0).max(10) *)
(* (the schema of the repository's validation test).                       *)
(***************************************************************************)
NoController == [schema |-> "absent", defaultValue |-> Null]

SettingController ==
    { [schema |-> "none",  defaultValue |-> VNum(15)],
      [schema |-> "range", defaultValue |-> VNum(0)] }

\* schema.parse(value) returns (TRUE) or throws (FALSE)
SchemaParse(schema, v) ==
    IF schema = "range" THEN v.t = "number" /\ v.n >= 0 /\ v.n <= 10 ELSE TRUE

(***************************************************************************)
(* State.                                                                  *)
(*   values, controllers, error  the zustand state of the store            *)
(*   config       the configured storage adapter: "none", "memory"         *)
(*                (MemoryStorageAdapter) or "local" (LocalStorageAdapter)  *)
(*   storage      the adapter's backing map (Map / localStorage), by key   *)
(*   calls        the store calls suspended at `await storage.set`         *)
(*   detached     storage.set calls of a rejected batch still running      *)
(*   thrOpen, thrPending   the throttle around the apply step              *)
(*   nops         number of calls made on the store so far                 *)
(* History variables, read by the properties only:                         *)
(*   lastEvent    the latest step of a store call and its outcome          *)
(*   lastAccepted the snapshot as it would be had every accepted write     *)
(*                been applied at once, in order of acceptance             *)
(*   everRegistered  keys that have had a controller                       *)
(*   persisted    the <<key, value>> pairs some storage.set has stored     *)
(*   mockCalls, winArgs, nthr   a mock function behind the throttle        *)
(* The relevance engine (static functions, no state of their own):         *)
(*   structure, definitions   the configuration the engine is called with  *)
(*   engineOut    the latest call made on the engine and what it returned  *)
(* A storage adapter called directly:                                      *)
(*   backing      localStorage, or the adapter's Map, by full key          *)
(*   written      per setting key, the value of the latest set not         *)
(*                followed by a delete or a clear (history)                *)
(*   adapterOut   the latest call made on the adapter and what it returned *)
(* A builder chain:                                                        *)
(*   builder      the SettingsBuilder and the sub-builder the chain is at  *)
(*   declared     the settings, tabs and groups the chain has declared, as *)
(*                its calls named them (history)                           *)
(*   builderOut   the latest builder call and what it returned or threw    *)
(*   nchain       number of calls made in the chain                        *)
(* The relevance templates and the provider:                               *)
(*   templateOut  the latest relevance function built from the templates,  *)
(*                the snapshot it was called on and what it returned       *)
(*   provider     the SettingsProvider's initializeSettings: where it is   *)
(*                and what it has collected                                *)
(***************************************************************************)
VARIABLES values, controllers, error, config, storage, calls, detached,
          thrOpen, thrPending, nops, lastEvent, lastAccepted,
          everRegistered, persisted, mockCalls, winArgs, nthr,
          structure, definitions, engineOut,
          backing, written, adapterOut,
          builder, declared, builderOut, nchain,
          templateOut, provider

vars == <<values, controllers, error, config, storage, calls, detached,
          thrOpen, thrPending, nops, lastEvent, lastAccepted,
          everRegistered, persisted, mockCalls, winArgs, nthr,
          structure, definitions, engineOut,
          backing, written, adapterOut,
          builder, declared, builderOut, nchain,
          templateOut, provider>>

storeVars == <<values, controllers, error, config, storage, calls, detached,
               nops, lastEvent, lastAccepted, everRegistered, persisted>>

mockVars == <<mockCalls, winArgs, nthr>>

engineVars == <<structure, definitions, engineOut>>

adapterVars == <<backing, written, adapterOut>>

builderVars == <<builder, declared, builderOut, nchain>>

(***************************************************************************)
(* Storage adapters.  The backing map holds what the adapter stores: the   *)
(* value itself for MemoryStorageAdapter, its JSON text for                *)
(* LocalStorageAdapter (encryption off).                                   *)
(***************************************************************************)
\* JSON.stringify of a value: a non-empty text that names type and value
Serialize(v) ==
    [t |-> CASE v.t = "number" -> "json-number"
             [] v.t = "boolean" -> "json-boolean"
             [] v.t = "string" -> "json-string"
             [] OTHER -> "json-null",
     n |-> v.n]

\* JSON.parse of a stored text
Deserialize(stored) ==
    [t |-> CASE stored.t = "json-number" -> "number"
             [] stored.t = "json-boolean" -> "boolean"
             [] stored.t = "json-string" -> "string"
             [] OTHER -> "null",
     n |-> stored.n]

\* what storage.set(key, value) puts in the backing map
StoredForm(cfg, v) == IF cfg = "local" THEN Serialize(v) ELSE v

\* storage.get(key): MemoryStorageAdapter returns `value || null`,
\* LocalStorageAdapter returns null for a missing item and the parsed text
\* otherwise
AdapterGet(cfg, store, k) ==
    IF cfg = "local"
    THEN IF store[k] = Null THEN Null ELSE Deserialize(store[k])
    ELSE IF Truthy(store[k]) THEN store[k] ELSE Null

\* whether storage.set of this adapter can reject (localStorage.setItem
\* throws, e.g. on a full quota; the Map of the memory adapter never does)
CanReject(cfg) == cfg = "local"

(***************************************************************************)
(* The adapters as objects over their backing map.  A full key is the list *)
(* of its parts, so that `prefix + key` and startsWith are computed; the   *)
(* backing map of LocalStorageAdapter is localStorage, which other code    *)
(* writes to as well and whose entries can be damaged.  An absent entry is *)
(* Null.                                                                   *)
(***************************************************************************)
VBool(b) == [t |-> "boolean", n |-> IF b THEN 1 ELSE 0]

\* a string of the given length
VStr(len) == [t |-> "string", n |-> len]

\* the values the adapter is called with
AdapterValues == {VNum(0), VNum(15), VBool(FALSE), VBool(TRUE), VStr(0), VStr(2)}

\* options.prefix || 'pitz:'
Prefix == <<"pitz:">>

\* `${this.prefix}${key}`
GetKey(key) == Prefix \o <<key>>

\* entries of localStorage that are not this adapter's
ForeignKeys == { <<"app:", "a">>, <<"a">> }

BackingKeys == {GetKey(k) : k \in Keys} \cup ForeignKeys

EmptyBacking == [fk \in BackingKeys |-> Null]

\* mutant: every key counts as one of the adapter's
StartsWithAnything(fullKey, prefix) == TRUE

\* key.startsWith(this.prefix)
StartsWith(fullKey, prefix) ==
    /\ Len(fullKey) >= Len(prefix)
    /\ SubSeq(fullKey, 1, Len(prefix)) = prefix

\* texts in localStorage that no serialize call wrote: bytes that are not
\* JSON, the JSON text null, and the empty text
MalformedText == [t |-> "malformed", n |-> 1]

NullText == Serialize(Null)

EmptyText == [t |-> "empty", n |-> 0]

\* a text written by other code under its own key
ForeignText == [t |-> "foreign", n |-> 1]

\* `!stored`: getItem returned null or the empty text
NotStored(stored) == stored = Null \/ stored = EmptyText

\* deserialize throws: JSON.parse fails, or the parsed value is null
DeserializeThrows(stored) ==
    stored.t \notin {"json-number", "json-boolean", "json-string"}

\* MemoryStorageAdapter.get: `(value as T) || null`
MemoryGet(store, key) ==
    LET value == store[GetKey(key)] IN
    IF Truthy(value) THEN value ELSE Null

\* MemoryStorageAdapter.delete
MemoryDelete(store, key) == [store EXCEPT ![GetKey(key)] = Null]

\* MemoryStorageAdapter.set: null is deleted, any other value is stored
MemorySet(store, key, value) ==
    IF value = Null THEN MemoryDelete(store, key)
    ELSE [store EXCEPT ![GetKey(key)] = value]

\* clear of either adapter: every key that starts with the prefix is removed
ClearPrefixed(store) ==
    [fk \in DOMAIN store |-> IF StartsWith(fk, Prefix) THEN Null ELSE store[fk]]

\* LocalStorageAdapter.get: the value returned and localStorage afterwards
LocalGet(store, key) ==
    LET stored == store[GetKey(key)] IN
    IF NotStored(stored) THEN [ret |-> Null, store |-> store]
    ELSE IF DeserializeThrows(stored)
         THEN [ret |-> Null, store |-> [store EXCEPT ![GetKey(key)] = Null]]
         ELSE [ret |-> Deserialize(stored), store |-> store]

\* LocalStorageAdapter.delete: removeItem
LocalDelete(store, key) == [store EXCEPT ![GetKey(key)] = Null]

\* LocalStorageAdapter.set when setItem succeeds: null is removed, any other
\* value is stored as its JSON text
LocalSet(store, key, value) ==
    IF value = Null THEN LocalDelete(store, key)
    ELSE [store EXCEPT ![GetKey(key)] = Serialize(value)]

\* no call has been made on the adapter yet; of a call: its arguments, the
\* value it returned, whether it threw, and the full keys it removed
NoAdapterCall == [op |-> "none", key |-> "none", value |-> Null, ret |-> Null,
                  threw |-> FALSE, removed |-> {}]

\* the adapter is not called directly
AdapterUnused ==
    /\ backing = EmptyBacking
    /\ written = EmptyRecord
    /\ adapterOut = NoAdapterCall

(***************************************************************************)
(* The builders.  builder holds the fields of the SettingsBuilder          *)
(* (definitions, tabs), the sub-builder the chain is at ("root" for the    *)
(* SettingsBuilder itself, "returned" once build has returned, "thrown"    *)
(* once a call has thrown) and the fields of the sub-builders: definition  *)
(* of a SettingBuilder, tabData of a TabBuilder, groupData of a            *)
(* GroupBuilder.  An unset property (undefined) is "none" for a type and   *)
(* Null for a default value; the empty string is "".                       *)
(***************************************************************************)
\* new SettingBuilder(key, parent): this.definition = { key }
NewDefinition(key) == [key |-> key, type |-> "none", defaultValue |-> Null]

NoDefinition == NewDefinition("")

\* new TabBuilder(id, label, icon, parent): tabData = { groups: [] }, id, label
NewTab(id, label) == [id |-> id, label |-> label, groups |-> <<>>]

NoTab == NewTab("", "")

\* new GroupBuilder(title, parent): groupData = { settings: [] }, title
NewGroup(title) == [title |-> title, settings |-> <<>>]

NoGroup == NewGroup("")

\* new SettingsBuilder()
NewSettingsBuilder ==
    [definitions |-> <<>>, tabs |-> <<>>, at |-> "root",
     definition |-> NoDefinition, tabData |-> NoTab, groupData |-> NoGroup]

NoError == [message |-> "none", key |-> "none"]

\* a finish that returned, and one that threw
Finished(b) == [threw |-> FALSE, error |-> NoError, b |-> b]

Threw(b, message, name) ==
    [threw |-> TRUE, error |-> [message |-> message, key |-> name],
     b |-> [b EXCEPT !.at = "thrown"]]

\* mutant: a falsy default value counts as missing
SettingFinishRejectsFalsy(b) ==
    IF \/ b.definition.key = ""
       \/ b.definition.type = "none"
       \/ ~Truthy(b.definition.defaultValue)
    THEN Threw(b, "Incomplete setting definition for", b.definition.key)
    ELSE Finished([b EXCEPT !.definitions = Append(@, b.definition),
                            !.definition = NoDefinition])

\* SettingBuilder.finish: throws on a missing key, type or default value,
\* else parent.addDefinition(definition)
SettingFinish(b) ==
    IF \/ b.definition.key = ""
       \/ b.definition.type = "none"
       \/ b.definition.defaultValue = Null
    THEN Threw(b, "Incomplete setting definition for", b.definition.key)
    ELSE Finished([b EXCEPT !.definitions = Append(@, b.definition),
                            !.definition = NoDefinition])

\* GroupBuilder.finish: throws on a missing title or an empty list of
\* settings, else parent.addGroup(groupData)
GroupFinish(b) ==
    IF b.groupData.title = "" \/ Len(b.groupData.settings) = 0
    THEN Threw(b, "Incomplete group definition:", b.groupData.title)
    ELSE Finished([b EXCEPT !.tabData.groups = Append(@, b.groupData),
                            !.groupData = NoGroup])

\* mutant: the tab is checked and then not added
TabFinishAddsNothing(b) ==
    IF b.tabData.id = "" \/ b.tabData.label = ""
    THEN Threw(b, "Incomplete tab definition:", b.tabData.id)
    ELSE Finished([b EXCEPT !.tabData = NoTab])

\* TabBuilder.finish: throws on a missing id or label, else
\* parent.addTab(tabData)
TabFinish(b) ==
    IF b.tabData.id = "" \/ b.tabData.label = ""
    THEN Threw(b, "Incomplete tab definition:", b.tabData.id)
    ELSE Finished([b EXCEPT !.tabs = Append(@, b.tabData),
                            !.tabData = NoTab])

\* what a sub-builder does before it hands setting(), tab() or build() to
\* its parent: this.finish(); a GroupBuilder hands on to its TabBuilder,
\* which finishes in turn
FinishToRoot(b) ==
    CASE b.at = "setting" -> SettingFinish(b)
      [] b.at = "tab" -> TabFinish(b)
      [] b.at = "group" -> LET g == GroupFinish(b) IN
                           IF g.threw THEN g ELSE TabFinish(g.b)
      [] OTHER -> Finished(b)

\* SettingsBuilder.build: copies of the definitions and of the tabs
SettingsBuild(b) == [definitions |-> b.definitions, tabs |-> b.tabs]

NoConfiguration == [definitions |-> <<>>, tabs |-> <<>>]

\* the keys of a list of definitions or of structure items, without
\* repetition, in the order of their first occurrence (a JavaScript Set)
RECURSIVE DistinctInOrder(_)
DistinctInOrder(list) ==
    IF list = <<>> THEN <<>>
    ELSE LET front == DistinctInOrder(SubSeq(list, 1, Len(list) - 1))
             last == list[Len(list)]
         IN  IF \E i \in 1..Len(front) : front[i] = last THEN front
             ELSE Append(front, last)

RECURSIVE Flatten(_)
\* the concatenation of a list of lists
Flatten(lists) ==
    IF lists = <<>> THEN <<>> ELSE Head(lists) \o Flatten(Tail(lists))

\* for tab, for group, for setting: setting.key
ReferencedKeys(cfg) ==
    DistinctInOrder(Flatten([i \in 1..Len(cfg.tabs) |->
        Flatten([j \in 1..Len(cfg.tabs[i].groups) |->
            cfg.tabs[i].groups[j].settings])]))

DefinedKeys(cfg) ==
    DistinctInOrder([i \in 1..Len(cfg.definitions) |-> cfg.definitions[i].key])

\* list.has(key)
Has(list, key) == \E i \in 1..Len(list) : list[i] = key

\* mutant: a missing definition is an error
ValidationThrowsOnMissing(b) ==
    LET cfg == SettingsBuild(b)
        missing == SelectSeq(ReferencedKeys(cfg), LAMBDA k : ~Has(DefinedKeys(cfg), k))
    IN  [threw |-> missing # <<>>, config |-> IF missing # <<>> THEN NoConfiguration ELSE cfg,
         missing |-> missing, unused |-> <<>>]

\* SettingsBuilder.buildWithValidation: the configuration returned and the
\* two lists it warns about
BuildWithValidation(b) ==
    LET cfg == SettingsBuild(b)
        definedKeys == DefinedKeys(cfg)
        referencedKeys == ReferencedKeys(cfg)
    IN  [threw |-> FALSE, config |-> cfg,
         missing |-> SelectSeq(referencedKeys, LAMBDA k : ~Has(definedKeys, k)),
         unused |-> SelectSeq(definedKeys, LAMBDA k : ~Has(referencedKeys, k))]

\* no builder call has been made yet; of a call: the method, whether it
\* threw and with what error, and what build or buildWithValidation
\* returned and warned about
NoBuilderCall == [op |-> "none", threw |-> FALSE, error |-> NoError,
                  config |-> NoConfiguration, missing |-> <<>>, unused |-> <<>>]

BuilderCall(op, r) ==
    [NoBuilderCall EXCEPT !.op = op, !.threw = r.threw, !.error = r.error]

NothingDeclared == [keys |-> <<>>, tabs |-> <<>>]

\* no builder is in use
BuilderUnused ==
    /\ builder = NewSettingsBuilder
    /\ declared = NothingDeclared
    /\ builderOut = NoBuilderCall
    /\ nchain = 0

(***************************************************************************)
(* RelevanceTemplates.  A relevance function built from the templates is   *)
(* the closure the template returns: the template that made it (op), the   *)
(* key it captured and the conditions it captured (args).  Calling it      *)
(* runs the body of that closure on the snapshot, which is modelled, as    *)
(* for the engine, by the truthiness of the value of each key.             *)
(***************************************************************************)
\* RelevanceTemplates.dependsOn(parentKey)
TDependsOn(parentKey) == [op |-> "dependsOn", key |-> parentKey, args |-> <<>>]

\* RelevanceTemplates.always() and never()
TAlways == [op |-> "always", key |-> "none", args |-> <<>>]

TNever == [op |-> "never", key |-> "none", args |-> <<>>]

\* RelevanceTemplates.not(condition)
TNot(condition) == [op |-> "not", key |-> "none", args |-> <<condition>>]

\* RelevanceTemplates.allOf(...conditions) and anyOf(...conditions)
TAllOf(conditions) == [op |-> "allOf", key |-> "none", args |-> conditions]

TAnyOf(conditions) == [op |-> "anyOf", key |-> "none", args |-> conditions]

RECURSIVE CallCondition(_, _)
RECURSIVE Every(_, _, _)
RECURSIVE SomeNeverStops(_, _, _)
RECURSIVE Some(_, _, _)
\* conditions.every(condition => condition(settings)), from index i on:
\* false at the first condition that returns false, true at the end
Every(conditions, settings, i) ==
    IF i > Len(conditions) THEN TRUE
    ELSE IF ~CallCondition(conditions[i], settings) THEN FALSE
         ELSE Every(conditions, settings, i + 1)

\* mutant: the result of the last condition is returned
SomeNeverStops(conditions, settings, i) ==
    IF i > Len(conditions) THEN FALSE
    ELSE IF i = Len(conditions) THEN CallCondition(conditions[i], settings)
         ELSE SomeNeverStops(conditions, settings, i + 1)

\* conditions.some(condition => condition(settings)), from index i on:
\* true at the first condition that returns true, false at the end
Some(conditions, settings, i) ==
    IF i > Len(conditions) THEN FALSE
    ELSE IF CallCondition(conditions[i], settings) THEN TRUE
         ELSE Some(conditions, settings, i + 1)

\* the relevance function called on a snapshot
CallCondition(fn, settings) ==
    CASE fn.op = "dependsOn" -> settings[fn.key]
      [] fn.op = "always" -> TRUE
      [] fn.op = "never" -> FALSE
      [] fn.op = "not" -> ~CallCondition(fn.args[1], settings)
      [] fn.op = "allOf" -> Every(fn.args, settings, 1)
      [] fn.op = "anyOf" -> Some(fn.args, settings, 1)

(***************************************************************************)
(* The throttle of src/utils (leading and trailing edge): the first call   *)
(* of an idle throttle invokes the wrapped function at once and opens the  *)
(* window; a call inside the window replaces the pending arguments; when   *)
(* the window elapses the wrapped function is invoked with the pending     *)
(* arguments, if any.                                                      *)
(***************************************************************************)
NoArgs == [kind |-> "none", upd |-> EmptyRecord]

\* mutant: a call inside the window keeps the arguments already pending
ThrottleCallKeepsFirst(open, pending, args) ==
    IF open
    THEN [open |-> TRUE,
          pending |-> IF pending = NoArgs THEN args ELSE pending,
          invoke |-> NoArgs]
    ELSE [open |-> TRUE, pending |-> NoArgs, invoke |-> args]

ThrottleCall(open, pending, args) ==
    IF open
    THEN [open |-> TRUE, pending |-> args, invoke |-> NoArgs]
    ELSE [open |-> TRUE, pending |-> NoArgs, invoke |-> args]

ThrottleFire(open, pending) ==
    [open |-> FALSE, pending |-> NoArgs, invoke |-> pending]

(***************************************************************************)
(* zustand's set, called with the updater functions of the store.  An      *)
(* updater is [kind, upd]: "merge" is                                      *)
(* (state) => ({values: {...state.values, ...upd}, error: null}) and       *)
(* "replace" is () => ({values: upd, error: null}).                        *)
(***************************************************************************)
MergeUpdater(upd) == [kind |-> "merge", upd |-> upd]

ReplaceUpdater(upd) == [kind |-> "replace", upd |-> upd]

\* mutant: the merge spreads the old values over the update
SetStateValuesKeepsOld(u, vals) ==
    IF u.kind = "replace" THEN u.upd
    ELSE IF u.kind = "merge"
         THEN [k \in Keys |-> IF vals[k] # Null THEN vals[k] ELSE u.upd[k]]
         ELSE vals

\* mutant: of a batch of several keys only the first is written
SetStateValuesFirstKeyOnly(u, vals) ==
    IF u.kind = "none" THEN vals
    ELSE [k \in Keys |->
             IF u.upd[k] # Null /\ (k = "a" \/ u.upd["a"] = Null) THEN u.upd[k]
             ELSE vals[k]]

SetStateValues(u, vals) ==
    IF u.kind = "replace" THEN u.upd
    ELSE IF u.kind = "merge"
         THEN [k \in Keys |-> IF u.upd[k] # Null THEN u.upd[k] ELSE vals[k]]
         ELSE vals

\* {[key]: value}
Single(k, v) == [x \in Keys |-> IF x = k THEN v ELSE Null]

(***************************************************************************)
(* Initial state: createSettingsStore(config) with one of the adapters (or *)
(* none); the backing store of the adapter starts empty.                   *)
(***************************************************************************)
NoneIssued == [k \in Keys |-> 0]

NoEvent == [op |-> "none", upd |-> EmptyRecord, res |-> "none",
            issued |-> NoneIssued]

\* the setting keys the relevance engine is exercised with
SettingKeys == {"k1", "k2", "k3"}

\* no call has been made on the relevance engine yet; of a call: its
\* arguments, the boolean it returned (for a call that returns a list:
\* whether it returned at all), the errors and the list of keys it returned,
\* and how many times it has been made with these arguments
NoOutcome == [op |-> "none", key |-> "none",
              currentValues |-> [k \in SettingKeys |-> FALSE],
              result |-> FALSE, errors |-> <<>>, keys |-> <<>>, ncalls |-> 0]

\* initializeSettings of the provider has not run.  controllers is the
\* controllers prop, held what storage holds for each key when it starts,
\* storedValues and finalValues are its locals, next the keys its current
\* loop still has to handle, rejected whether a storage.set of its
\* setValues call rejected
NoProvider == [pc |-> "idle", controllers |-> [k \in Keys |-> NoController],
               held |-> EmptyRecord, storedValues |-> EmptyRecord,
               finalValues |-> EmptyRecord, next |-> <<>>, rejected |-> FALSE]

\* no relevance function has been called yet
NoTemplateCall == [fn |-> TAlways, called |-> FALSE,
                   settings |-> [k \in SettingKeys |-> FALSE], result |-> FALSE]

\* the store, its adapter and the throttle after construction
InitStore ==
    /\ values = EmptyRecord
    /\ controllers = [k \in Keys |-> NoController]
    /\ error = "null"
    /\ config \in {"none", "memory", "local"}
    /\ storage = EmptyRecord
    /\ calls = <<>>
    /\ detached = {}
    /\ thrOpen = FALSE
    /\ thrPending = NoArgs
    /\ nops = 0
    /\ lastEvent = NoEvent
    /\ lastAccepted = EmptyRecord
    /\ everRegistered = {}
    /\ persisted = {}
    /\ mockCalls = <<>>
    /\ winArgs = <<>>
    /\ nthr = 0

Init ==
    /\ InitStore
    /\ structure = <<>>
    /\ definitions = <<>>
    /\ engineOut = NoOutcome
    /\ AdapterUnused
    /\ BuilderUnused
    /\ templateOut = NoTemplateCall
    /\ provider = NoProvider

(***************************************************************************)
(* Pieces of the mutation pipeline.                                        *)
(***************************************************************************)
\* mutant: the schema parses the controller's default, not the candidate
ValidationFailsOnDefault(ctrl, v) ==
    /\ ctrl # NoController
    /\ ctrl.schema # "none"
    /\ ~SchemaParse(ctrl.schema, ctrl.defaultValue)

\* `controller?.schema` present and schema.parse(value) throws
ValidationFails(ctrl, v) ==
    /\ ctrl # NoController
    /\ ctrl.schema # "none"
    /\ ~SchemaParse(ctrl.schema, v)

\* mutant: the validation loop stops after the first entry of the batch
BatchValidationFirstEntryOnly(ctrls, upd) ==
    \E k \in ObjectKeys(upd) \cap {"a"} : ValidationFails(ctrls[k], upd[k])

\* the validation loop of setValues: some entry of the batch is rejected
BatchValidationFails(ctrls, upd) ==
    \E k \in ObjectKeys(upd) : ValidationFails(ctrls[k], upd[k])

\* mutant: only the first entry of a batch is persisted
StorageSetFirstEntryOnly(upd) ==
    [k \in Keys |-> IF upd[k] # Null /\ (k = "a" \/ upd["a"] = Null) THEN 1 ELSE 0]

\* how many storage.set calls a call issues for each key, storage configured
StorageSetCalls(upd) == [k \in Keys |-> IF upd[k] # Null THEN 1 ELSE 0]

\* mutant: resetToDefault hands over an updater that merges nothing
UpdaterOfDropsReset(op, upd) ==
    IF op = "resetAllToDefaults" THEN ReplaceUpdater(upd)
    ELSE IF op = "resetToDefault" THEN MergeUpdater(EmptyRecord)
    ELSE MergeUpdater(upd)

\* the updater handed to throttledSet once persistence is done
UpdaterOf(op, upd) ==
    IF op = "resetAllToDefaults" THEN ReplaceUpdater(upd) ELSE MergeUpdater(upd)

Event(op, upd, res, issued) ==
    [op |-> op, upd |-> upd, res |-> res, issued |-> issued]

\* throttledSet(updater): the throttle decides whether set runs now
ThrottledSet(u) ==
    LET r == ThrottleCall(thrOpen, thrPending, u) IN
    /\ thrOpen' = r.open
    /\ thrPending' = r.pending
    /\ values' = SetStateValues(r.invoke, values)
    /\ error' = IF r.invoke # NoArgs THEN "null" ELSE error
    /\ lastAccepted' = SetStateValues(u, lastAccepted)

\* mutant: the catch block rethrows without recording the error
CatchWithoutRecord(kind) ==
    UNCHANGED <<error, values, thrOpen, thrPending, lastAccepted>>

\* the catch block: set({error}) and rethrow
Catch(kind) ==
    /\ error' = kind
    /\ UNCHANGED <<values, thrOpen, thrPending, lastAccepted>>

\* the body of a mutating call after validation: persist, then apply.
\* With an adapter and something to persist the call suspends at its await;
\* without an adapter (or with an empty batch, whose Promise.all is already
\* resolved) it goes on to throttledSet in the same step.
Pipeline(op, upd) ==
    LET issued == StorageSetCalls(upd) IN
    IF config # "none" /\ \E k \in Keys : issued[k] > 0
    THEN /\ Len(calls) < MaxInFlight
         /\ calls' = Append(calls, [op |-> op, upd |-> upd, issued |-> issued,
                                    wait |-> {k \in Keys : issued[k] > 0}])
         /\ lastEvent' = Event(op, upd, "issued", issued)
         /\ UNCHANGED <<values, error, thrOpen, thrPending, lastAccepted>>
    ELSE /\ ThrottledSet(UpdaterOf(op, upd))
         /\ lastEvent' = Event(op, upd, "accepted", NoneIssued)
         /\ UNCHANGED calls

RemoveAt(seq, i) ==
    [j \in 1..(Len(seq) - 1) |-> IF j < i THEN seq[j] ELSE seq[j + 1]]

(***************************************************************************)
(* The operations of the store.  A call that has to persist runs up to its *)
(* `await` in one step and is resumed by the adapter (StorageSetResolves,  *)
(* StorageSetRejects); every other call runs to its end in one step.       *)
(***************************************************************************)
SetValue(k, v) ==
    /\ nops < MaxOps
    /\ nops' = nops + 1
    /\ IF ValidationFails(controllers[k], v)
       THEN /\ Catch("validation")
            /\ lastEvent' = Event("setValue", Single(k, v), "rejected", NoneIssued)
            /\ UNCHANGED calls
       ELSE Pipeline("setValue", Single(k, v))
    /\ UNCHANGED <<controllers, config, storage, detached, everRegistered,
                   persisted, mockVars, engineVars,
                   adapterVars, builderVars,
                               templateOut, provider>>

SetValues(upd) ==
    /\ nops < MaxOps
    /\ nops' = nops + 1
    /\ IF BatchValidationFails(controllers, upd)
       THEN /\ Catch("validation")
            /\ lastEvent' = Event("setValues", upd, "rejected", NoneIssued)
            /\ UNCHANGED calls
       ELSE Pipeline("setValues", upd)
    /\ UNCHANGED <<controllers, config, storage, detached, everRegistered,
                   persisted, mockVars, engineVars,
                   adapterVars, builderVars,
                               templateOut, provider>>

\* mutant: a missing controller is an error, recorded and thrown
ResetToDefaultThrows(k) ==
    /\ nops < MaxOps
    /\ nops' = nops + 1
    /\ IF controllers[k] = NoController
       THEN /\ Catch("controller")
            /\ lastEvent' = Event("resetToDefault", EmptyRecord, "failed", NoneIssued)
            /\ UNCHANGED calls
       ELSE Pipeline("resetToDefault", Single(k, controllers[k].defaultValue))
    /\ UNCHANGED <<controllers, config, storage, detached, everRegistered,
                   persisted, mockVars, engineVars,
                   adapterVars, builderVars,
                               templateOut, provider>>

ResetToDefault(k) ==
    /\ nops < MaxOps
    /\ nops' = nops + 1
    /\ IF controllers[k] = NoController
       THEN /\ lastEvent' = Event("resetToDefault", EmptyRecord, "noop", NoneIssued)
            /\ UNCHANGED <<values, error, thrOpen, thrPending, lastAccepted, calls>>
       ELSE Pipeline("resetToDefault", Single(k, controllers[k].defaultValue))
    /\ UNCHANGED <<controllers, config, storage, detached, everRegistered,
                   persisted, mockVars, engineVars,
                   adapterVars, builderVars,
                               templateOut, provider>>

\* Object.entries(state.controllers).reduce(...): every controller's default
DefaultValues(ctrls) == [k \in Keys |-> ctrls[k].defaultValue]

ResetAllToDefaults ==
    /\ nops < MaxOps
    /\ nops' = nops + 1
    /\ Pipeline("resetAllToDefaults", DefaultValues(controllers))
    /\ UNCHANGED <<controllers, config, storage, detached, everRegistered,
                   persisted, mockVars, engineVars,
                   adapterVars, builderVars,
                               templateOut, provider>>

\* mutant: registration drops a stored value the new schema rejects
RegisterControllerRevalidates(k, c) ==
    /\ nops < MaxOps
    /\ nops' = nops + 1
    /\ controllers' = [controllers EXCEPT ![k] = c]
    /\ values' = IF ValidationFails(c, values[k])
                 THEN [values EXCEPT ![k] = Null] ELSE values
    /\ everRegistered' = everRegistered \cup {k}
    /\ lastEvent' = Event("registerController", EmptyRecord, "done", NoneIssued)
    /\ UNCHANGED <<error, config, storage, calls, detached, thrOpen,
                   thrPending, lastAccepted, persisted, mockVars, engineVars,
                   adapterVars, builderVars,
                               templateOut, provider>>

RegisterController(k, c) ==
    /\ nops < MaxOps
    /\ nops' = nops + 1
    /\ controllers' = [controllers EXCEPT ![k] = c]
    /\ everRegistered' = everRegistered \cup {k}
    /\ lastEvent' = Event("registerController", EmptyRecord, "done", NoneIssued)
    /\ UNCHANGED <<values, error, config, storage, calls, detached, thrOpen,
                   thrPending, lastAccepted, persisted, mockVars, engineVars,
                   adapterVars, builderVars,
                               templateOut, provider>>

UnregisterController(k) ==
    /\ nops < MaxOps
    /\ nops' = nops + 1
    /\ controllers' = [controllers EXCEPT ![k] = NoController]
    /\ lastEvent' = Event("unregisterController", EmptyRecord, "done", NoneIssued)
    /\ UNCHANGED <<values, error, config, storage, calls, detached, thrOpen,
                   thrPending, lastAccepted, everRegistered, persisted, mockVars,
                   engineVars,
                   adapterVars, builderVars,
                               templateOut, provider>>

(***************************************************************************)
(* The adapter settles a storage.set.  A resolved set has stored its value;*)
(* a rejected one has stored nothing.  The call resumes when its last set  *)
(* resolves (Promise.all for the batches) or as soon as one rejects.       *)
(***************************************************************************)
StorageSetResolves(i, k) ==
    LET c == calls[i] IN
    /\ k \in c.wait
    /\ storage' = [storage EXCEPT ![k] = StoredForm(config, c.upd[k])]
    /\ persisted' = persisted \cup {<<k, c.upd[k]>>}
    /\ IF c.wait = {k}
       THEN /\ calls' = RemoveAt(calls, i)
            /\ ThrottledSet(UpdaterOf(c.op, c.upd))
            /\ lastEvent' = Event(c.op, c.upd, "accepted", c.issued)
       ELSE /\ calls' = [calls EXCEPT ![i].wait = @ \ {k}]
            /\ UNCHANGED <<values, error, thrOpen, thrPending, lastAccepted,
                           lastEvent>>
    /\ UNCHANGED <<controllers, config, detached, nops, everRegistered,
                   mockVars, engineVars,
                   adapterVars, builderVars,
                               templateOut, provider>>

StorageSetRejects(i, k) ==
    LET c == calls[i] IN
    /\ CanReject(config)
    /\ k \in c.wait
    /\ calls' = RemoveAt(calls, i)
    /\ detached' = detached \cup {<<x, c.upd[x]>> : x \in c.wait \ {k}}
    /\ Catch("storage")
    /\ lastEvent' = Event(c.op, c.upd, "failed", c.issued)
    /\ UNCHANGED <<controllers, config, storage, nops, everRegistered,
                   persisted, mockVars, engineVars,
                   adapterVars, builderVars,
                               templateOut, provider>>

DetachedResolves(d) ==
    /\ d \in detached
    /\ detached' = detached \ {d}
    /\ storage' = [storage EXCEPT ![d[1]] = StoredForm(config, d[2])]
    /\ persisted' = persisted \cup {d}
    /\ UNCHANGED <<values, controllers, error, config, calls, thrOpen,
                   thrPending, nops, lastEvent, lastAccepted, everRegistered,
                   mockVars, engineVars,
                   adapterVars, builderVars,
                               templateOut, provider>>

DetachedRejects(d) ==
    /\ d \in detached
    /\ detached' = detached \ {d}
    /\ UNCHANGED <<values, controllers, error, config, storage, calls, thrOpen,
                   thrPending, nops, lastEvent, lastAccepted, everRegistered,
                   persisted, mockVars, engineVars,
                   adapterVars, builderVars,
                               templateOut, provider>>

\* the throttle window elapses: the trailing call of set, if one is pending
ThrottleTimer ==
    LET r == ThrottleFire(thrOpen, thrPending) IN
    /\ thrOpen
    /\ thrOpen' = r.open
    /\ thrPending' = r.pending
    /\ values' = SetStateValues(r.invoke, values)
    /\ error' = IF r.invoke # NoArgs THEN "null" ELSE error
    /\ UNCHANGED <<controllers, config, storage, calls, detached, nops,
                   lastEvent, lastAccepted, everRegistered, persisted, mockVars,
                   engineVars,
                   adapterVars, builderVars,
                               templateOut, provider>>

(***************************************************************************)
(* subscribe of the store's state.  Its body is                            *)
(* `return get().subscribe(callback)`: get() returns the state, and the    *)
(* subscribe of the state is this very function (no set ever replaces it), *)
(* so the call re-enters itself until the call stack is exhausted.         *)
(***************************************************************************)
RECURSIVE StateSubscribe(_)
\* what the call made at stack depth `depth` returns or throws
StateSubscribe(depth) ==
    IF depth > MaxCallStack THEN "RangeError" ELSE StateSubscribe(depth + 1)

\* store.getState().subscribe(callback)
Subscribe ==
    /\ nops < MaxOps
    /\ nops' = nops + 1
    /\ lastEvent' = Event("subscribe", EmptyRecord, StateSubscribe(1), NoneIssued)
    /\ UNCHANGED <<values, controllers, error, config, storage, calls,
                   detached, thrOpen, thrPending, lastAccepted, everRegistered,
                   persisted, mockVars, engineVars,
                   adapterVars, builderVars,
                               templateOut, provider>>

BatchInputs == [Keys -> SettingValue \cup {Null}]

Next ==
    \/ \E k \in Keys, v \in SettingValue : SetValue(k, v)
    \/ \E upd \in BatchInputs : SetValues(upd)
    \/ \E k \in Keys : ResetToDefault(k)
    \/ ResetAllToDefaults
    \/ \E k \in Keys, c \in SettingController : RegisterController(k, c)
    \/ \E k \in Keys : UnregisterController(k)
    \/ \E i \in 1..Len(calls), k \in Keys : StorageSetResolves(i, k)
    \/ \E i \in 1..Len(calls), k \in Keys : StorageSetRejects(i, k)
    \/ \E d \in detached : DetachedResolves(d)
    \/ \E d \in detached : DetachedRejects(d)
    \/ ThrottleTimer
    \/ Subscribe

Spec == Init /\ [][Next]_vars

(***************************************************************************)
(* The throttle on its own, around a mock function that records the        *)
(* arguments of every invocation (the throttle tests of the repository).   *)
(*   mockCalls  the arguments the mock was invoked with, in order          *)
(*   winArgs    the arguments of the calls made since the window opened    *)
(***************************************************************************)
MockArgs == {MergeUpdater(Single(k, v)) : k \in Keys, v \in SettingValue}

InitThrottle == Init /\ config = "none"

\* throttledFn(a)
MockCall(a) ==
    LET r == ThrottleCall(thrOpen, thrPending, a) IN
    /\ nthr < MaxThrottleCalls
    /\ nthr' = nthr + 1
    /\ thrOpen' = r.open
    /\ thrPending' = r.pending
    /\ mockCalls' = IF r.invoke # NoArgs THEN Append(mockCalls, r.invoke)
                    ELSE mockCalls
    /\ winArgs' = IF thrOpen THEN Append(winArgs, a) ELSE <<a>>
    /\ UNCHANGED <<storeVars, engineVars,
                   adapterVars, builderVars,
                               templateOut, provider>>

\* the window elapses
MockTimer ==
    LET r == ThrottleFire(thrOpen, thrPending) IN
    /\ thrOpen
    /\ thrOpen' = r.open
    /\ thrPending' = r.pending
    /\ mockCalls' = IF r.invoke # NoArgs THEN Append(mockCalls, r.invoke)
                    ELSE mockCalls
    /\ UNCHANGED <<winArgs, nthr, storeVars, engineVars,
                   adapterVars, builderVars,
                               templateOut, provider>>

NextThrottle ==
    \/ \E a \in MockArgs : MockCall(a)
    \/ MockTimer

SpecThrottle == InitThrottle /\ [][NextThrottle]_vars

(***************************************************************************)
(* Concurrent setValue calls: a caller that issues setValue calls without  *)
(* awaiting them, on a store with a storage adapter and no controllers.    *)
(* The adapter settles the sets in any order.                              *)
(***************************************************************************)
InitConcurrent == Init /\ config # "none"

\* the keys the suspended calls are writing
KeysInFlight == {k \in Keys : \E i \in 1..Len(calls) : calls[i].upd[k] # Null}

\* the calls that have run to their end
Completed == nops - Len(calls)

\* setValue(k, v) on a key no suspended call is writing, issued while every
\* call made before it is still suspended, or all but one that completed
\* earlier (the throttle window of that one may still be open)
SetValueDistinctKey(k, v) ==
    /\ k \notin KeysInFlight
    /\ Completed <= 1
    /\ SetValue(k, v)

NextDistinctKeys ==
    \/ \E k \in Keys, v \in SettingValue : SetValueDistinctKey(k, v)
    \/ \E i \in 1..Len(calls), k \in Keys : StorageSetResolves(i, k)
    \/ ThrottleTimer

SpecDistinctKeys == InitConcurrent /\ [][NextDistinctKeys]_vars

\* setValue(k, v) on the one key every call so far has written, issued
\* while every call made before it is still suspended
SetValueSameKey(k, v) ==
    /\ KeysInFlight \subseteq {k}
    /\ Completed = 0
    /\ SetValue(k, v)

NextSameKey ==
    \/ \E k \in Keys, v \in SettingValue : SetValueSameKey(k, v)
    \/ \E i \in 1..Len(calls), k \in Keys : StorageSetResolves(i, k)
    \/ ThrottleTimer

SpecSameKey == InitConcurrent /\ [][NextSameKey]_vars

(***************************************************************************)
(* The relevance engine (RelevanceEngine, static functions).               *)
(* A relevance function is [src, reads]: src "none" is an absent           *)
(* isRelevant; src "inline" is a function written with the keys it reads   *)
(* as literals, (settings) => !!settings['k1'] && !!settings['k2'] for     *)
(* reads = {k1, k2} and () => true for reads = {}.  A snapshot is          *)
(* modelled by the truthiness of the value of each key.  The structure is  *)
(* the list of its items in tab and group order; an item and a definition  *)
(* are [key, isRelevant].                                                  *)
(***************************************************************************)
NoPredicate == [src |-> "none", reads |-> {}]

InlinePredicate(S) == [src |-> "inline", reads |-> S]

\* relevanceFn(currentValues)
Apply(fn, currentValues) == \A k \in fn.reads : currentValues[k]

Snapshots == [SettingKeys -> BOOLEAN]

\* array.find(x => x.key === settingKey): index of the first match, or 0
FindIndex(arr, settingKey) ==
    IF \E i \in 1..Len(arr) : arr[i].key = settingKey
    THEN CHOOSE i \in 1..Len(arr) :
             /\ arr[i].key = settingKey
             /\ \A j \in 1..(i - 1) : arr[j].key # settingKey
    ELSE 0

\* `x?.isRelevant` of the element found, undefined when there is none
IsRelevantOf(arr, settingKey) ==
    LET i == FindIndex(arr, settingKey) IN
    IF i = 0 THEN NoPredicate ELSE arr[i].isRelevant

\* mutant: only the definition-level predicate is consulted
EvaluateDefinitionOnly(settingKey, struct, defs, currentValues) ==
    LET fn == IsRelevantOf(defs, settingKey) IN
    fn.src = "none" \/ Apply(fn, currentValues)

Evaluate(settingKey, struct, defs, currentValues) ==
    LET definitionFn == IsRelevantOf(defs, settingKey)
        structureFn == IsRelevantOf(struct, settingKey)
    IN  IF definitionFn.src # "none" /\ ~Apply(definitionFn, currentValues)
        THEN FALSE
        ELSE IF structureFn.src # "none" /\ ~Apply(structureFn, currentValues)
             THEN FALSE
             ELSE TRUE

ExtractAllKeys(struct) == [i \in 1..Len(struct) |-> struct[i].key]

\* mutant: every key of the structure is returned
GetVisibleSettingsUnfiltered(struct, defs, currentValues) == ExtractAllKeys(struct)

\* allKeys.filter(key => this.evaluate(key, structure, definitions, currentValues))
GetVisibleSettings(struct, defs, currentValues) ==
    SelectSeq(ExtractAllKeys(struct),
              LAMBDA key : Evaluate(key, struct, defs, currentValues))

\* fnString.includes(pattern) for one of the key-literal patterns: the text
\* of an inline function holds exactly the keys it reads
ReferencesSetting(fn, settingKey) ==
    /\ fn.src # "none"
    /\ fn.src = "inline" /\ settingKey \in fn.reads

\* mutant: only the definition-level predicate is scanned
GetDependentSettingsDefinitionOnly(changedKey, struct, defs) ==
    SelectSeq(ExtractAllKeys(struct),
              LAMBDA key : ReferencesSetting(IsRelevantOf(defs, key), changedKey))

GetDependentSettings(changedKey, struct, defs) ==
    SelectSeq(ExtractAllKeys(struct),
              LAMBDA key :
                  \/ ReferencesSetting(IsRelevantOf(defs, key), changedKey)
                  \/ ReferencesSetting(IsRelevantOf(struct, key), changedKey))

\* tree[key] for every key of the structure
GetRelevanceTree(struct, defs) ==
    [key \in {struct[i].key : i \in 1..Len(struct)} |->
        GetDependentSettings(key, struct, defs)]

\* Object.keys(tree): the keys in the order in which they were first added
TreeKeys(struct) ==
    SelectSeq([i \in 1..Len(struct) |-> i],
              LAMBDA i : \A j \in 1..(i - 1) : struct[j].key # struct[i].key)

\* the sets and the error list validateRelevanceTree works on, and the
\* value the latest hasCycle call returned
NoTraversal == [visited |-> {}, recursionStack |-> {}, errors |-> <<>>,
                ret |-> FALSE]

\* mutant: the recursion stack is never found to hold the node
RecursionStackHasNever(st, node) == FALSE

\* recursionStack.has(node)
RecursionStackHas(st, node) == node \in st.recursionStack

RECURSIVE HasCycle(_, _, _)
RECURSIVE HasCycleLoop(_, _, _, _)
\* hasCycle(node): a node on the recursion stack is reported and ends the
\* search; on the way back no caller takes its node off the stack again
HasCycle(tree, node, st) ==
    IF RecursionStackHas(st, node)
    THEN [st EXCEPT !.errors = Append(@, node), !.ret = TRUE]
    ELSE IF node \in st.visited
         THEN [st EXCEPT !.ret = FALSE]
         ELSE LET entered == [st EXCEPT !.visited = @ \cup {node},
                                        !.recursionStack = @ \cup {node}]
                  after == HasCycleLoop(tree, tree[node], 1, entered)
              IN  IF after.ret
                  THEN after
                  ELSE [after EXCEPT !.recursionStack = @ \ {node},
                                     !.ret = FALSE]

\* for (const dependent of tree[node]) if (hasCycle(dependent)) return true
HasCycleLoop(tree, dependents, i, st) ==
    IF i > Len(dependents)
    THEN [st EXCEPT !.ret = FALSE]
    ELSE LET r == HasCycle(tree, dependents[i], st) IN
         IF r.ret THEN r ELSE HasCycleLoop(tree, dependents, i + 1, r)

RECURSIVE ValidateLoop(_, _, _, _)
\* for (const key of Object.keys(tree)) if (!visited.has(key)) hasCycle(key)
ValidateLoop(tree, keys, i, st) ==
    IF i > Len(keys)
    THEN st
    ELSE ValidateLoop(tree, keys, i + 1,
                      IF keys[i] \in st.visited THEN st
                      ELSE HasCycle(tree, keys[i], st))

\* {valid, errors}; an error is modelled by the key its message names
ValidateRelevanceTree(struct, defs) ==
    LET tree == GetRelevanceTree(struct, defs)
        keys == [i \in 1..Len(TreeKeys(struct)) |-> struct[TreeKeys(struct)[i]].key]
        st == ValidateLoop(tree, keys, 1, NoTraversal)
    IN  [valid |-> Len(st.errors) = 0, errors |-> st.errors]

\* the set and the list getDependencyOrder works on, and whether the call
\* stack was exhausted
NoVisit == [visited |-> {}, result |-> <<>>, raised |-> FALSE]

\* mutant: the visited set is never found to hold the key
VisitedHasNever(st, key) == FALSE

\* visited.has(key)
VisitedHas(st, key) == key \in st.visited

RECURSIVE Visit(_, _, _, _)
RECURSIVE VisitLoop(_, _, _, _, _)
\* visit(key) at a depth of the call stack: a visited key returns at once;
\* otherwise the key is marked, its dependents are visited, and the key is
\* pushed.  A call deeper than the stack allows raises RangeError.
Visit(tree, key, st, depth) ==
    IF st.raised THEN st
    ELSE IF depth > MaxCallStack THEN [st EXCEPT !.raised = TRUE]
    ELSE IF VisitedHas(st, key) THEN st
    ELSE LET entered == [st EXCEPT !.visited = @ \cup {key}]
             after == VisitLoop(tree, tree[key], 1, entered, depth + 1)
         IN  IF after.raised THEN after
             ELSE [after EXCEPT !.result = Append(@, key)]

\* for (const dependent of tree[key] || []) visit(dependent)
VisitLoop(tree, dependents, i, st, depth) ==
    IF i > Len(dependents) \/ st.raised
    THEN st
    ELSE VisitLoop(tree, dependents, i + 1,
                   Visit(tree, dependents[i], st, depth), depth)

\* mutant: the list is returned as it was built
ReverseNot(seq) == seq

\* result.reverse()
Reverse(seq) == [i \in 1..Len(seq) |-> seq[Len(seq) + 1 - i]]

\* getDependencyOrder(structure, definitions): whether it raised, and the
\* list it returned
GetDependencyOrder(struct, defs) ==
    LET tree == GetRelevanceTree(struct, defs)
        allKeys == ExtractAllKeys(struct)
        st == VisitLoop(tree, allKeys, 1, NoVisit, 1)
    IN  [raised |-> st.raised,
         result |-> IF st.raised THEN <<>> ELSE Reverse(st.result)]

(***************************************************************************)
(* The engine called on a configuration.  The configurations: two or three *)
(* items in the structure, or three items of which the third lists the     *)
(* first setting a second time (one setting shown in two groups), each     *)
(* setting with any inline predicate or none; for each key no definition,  *)
(* a definition without isRelevant, or one whose isRelevant reads k1.  The *)
(* functions are static and keep nothing between calls                     *)
(* (validateRelevanceTree and getDependencyOrder build their sets anew),   *)
(* so a behaviour is one configuration and one call, which may be          *)
(* repeated.                                                               *)
(***************************************************************************)
KeyOrder == <<"k1", "k2", "k3">>

\* the keys of the items of a structure, in tab and group order
StructureShapes == { <<"k1", "k2">>, <<"k1", "k2", "k3">>, <<"k1", "k2", "k1">> }

ItemPredicates == {NoPredicate} \cup {InlinePredicate(S) : S \in SUBSET SettingKeys}

StructureOf(item, shape) ==
    [i \in 1..Len(shape) |-> [key |-> shape[i], isRelevant |-> item[shape[i]]]]

DefinitionChoices == {"absent", "plain", "relevant"}

DefinitionsOf(d) ==
    LET defined == SelectSeq(KeyOrder, LAMBDA k : d[k] # "absent") IN
    [i \in 1..Len(defined) |->
        [key |-> defined[i],
         isRelevant |-> IF d[defined[i]] = "relevant"
                        THEN InlinePredicate({"k1"}) ELSE NoPredicate]]

InitRelevance ==
    /\ InitStore
    /\ config = "none"
    /\ structure \in {StructureOf(item, shape) :
                         item \in [SettingKeys -> ItemPredicates],
                         shape \in StructureShapes}
    /\ definitions \in {DefinitionsOf(d) : d \in [SettingKeys -> DefinitionChoices]}
    /\ engineOut = NoOutcome
    /\ AdapterUnused
    /\ BuilderUnused
    /\ templateOut = NoTemplateCall
    /\ provider = NoProvider

\* RelevanceEngine.evaluate(settingKey, structure, definitions, currentValues)
EvaluateCall(settingKey, currentValues) ==
    /\ engineOut = NoOutcome
    /\ engineOut' = [op |-> "evaluate", key |-> settingKey,
                     currentValues |-> currentValues,
                     result |-> Evaluate(settingKey, structure, definitions,
                                         currentValues),
                     errors |-> <<>>, keys |-> <<>>, ncalls |-> 1]
    /\ UNCHANGED <<structure, definitions, storeVars, thrOpen, thrPending,
                   mockVars, adapterVars, builderVars,
                               templateOut, provider>>

\* RelevanceEngine.validateRelevanceTree(structure, definitions)
ValidateCall ==
    LET r == ValidateRelevanceTree(structure, definitions) IN
    /\ engineOut = NoOutcome
    /\ engineOut' = [op |-> "validateRelevanceTree", key |-> "none",
                     currentValues |-> NoOutcome.currentValues,
                     result |-> r.valid, errors |-> r.errors,
                     keys |-> <<>>, ncalls |-> 1]
    /\ UNCHANGED <<structure, definitions, storeVars, thrOpen, thrPending,
                   mockVars, adapterVars, builderVars,
                               templateOut, provider>>

\* RelevanceEngine.getDependencyOrder(structure, definitions)
DependencyOrderCall ==
    LET r == GetDependencyOrder(structure, definitions) IN
    /\ engineOut = NoOutcome
    /\ engineOut' = [op |-> "getDependencyOrder", key |-> "none",
                     currentValues |-> NoOutcome.currentValues,
                     result |-> ~r.raised, errors |-> <<>>,
                     keys |-> r.result, ncalls |-> 1]
    /\ UNCHANGED <<structure, definitions, storeVars, thrOpen, thrPending,
                   mockVars, adapterVars, builderVars,
                               templateOut, provider>>

\* RelevanceEngine.getVisibleSettings(structure, definitions, currentValues)
VisibleSettingsCall(currentValues) ==
    /\ engineOut = NoOutcome
    /\ engineOut' = [op |-> "getVisibleSettings", key |-> "none",
                     currentValues |-> currentValues,
                     result |-> TRUE, errors |-> <<>>,
                     keys |-> GetVisibleSettings(structure, definitions,
                                                 currentValues),
                     ncalls |-> 1]
    /\ UNCHANGED <<structure, definitions, storeVars, thrOpen, thrPending,
                   mockVars, adapterVars, builderVars,
                               templateOut, provider>>

\* the same call made a second time, on the unchanged snapshot
VisibleSettingsAgain ==
    /\ engineOut.op = "getVisibleSettings"
    /\ engineOut.ncalls = 1
    /\ engineOut' = [engineOut EXCEPT
                        !.keys = GetVisibleSettings(structure, definitions,
                                                    engineOut.currentValues),
                        !.ncalls = 2]
    /\ UNCHANGED <<structure, definitions, storeVars, thrOpen, thrPending,
                   mockVars, adapterVars, builderVars,
                               templateOut, provider>>

NextRelevance ==
    \/ \E k \in SettingKeys, cv \in Snapshots : EvaluateCall(k, cv)
    \/ ValidateCall
    \/ DependencyOrderCall
    \/ \E cv \in Snapshots : VisibleSettingsCall(cv)
    \/ VisibleSettingsAgain

SpecRelevance == InitRelevance /\ [][NextRelevance]_vars

(***************************************************************************)
(* Dependency discovery called directly.  Besides inline predicates the    *)
(* configuration may hold a predicate made by                              *)
(* RelevanceTemplates.dependsOn(parentKey): its text is                    *)
(* `(settings) => !!settings[parentKey]`, which reads the captured key     *)
(* and holds no key literal (src "template").                              *)
(***************************************************************************)
TemplatePredicate(parentKey) == [src |-> "template", reads |-> {parentKey}]

DependentsPredicates == ItemPredicates \cup {TemplatePredicate("k1")}

InitDependents ==
    /\ InitStore
    /\ config = "none"
    /\ structure \in {StructureOf(item, shape) :
                         item \in [SettingKeys -> DependentsPredicates],
                         shape \in StructureShapes}
    /\ definitions \in {DefinitionsOf(d) : d \in [SettingKeys -> DefinitionChoices]}
    /\ engineOut = NoOutcome
    /\ AdapterUnused
    /\ BuilderUnused
    /\ templateOut = NoTemplateCall
    /\ provider = NoProvider

\* RelevanceEngine.getDependentSettings(changedKey, structure, definitions)
DependentSettingsCall(changedKey) ==
    /\ engineOut = NoOutcome
    /\ engineOut' = [op |-> "getDependentSettings", key |-> changedKey,
                     currentValues |-> NoOutcome.currentValues,
                     result |-> TRUE, errors |-> <<>>,
                     keys |-> GetDependentSettings(changedKey, structure,
                                                   definitions),
                     ncalls |-> 1]
    /\ UNCHANGED <<structure, definitions, storeVars, thrOpen, thrPending,
                   mockVars, adapterVars, builderVars,
                               templateOut, provider>>

\* RelevanceEngine.getRelevanceTree(structure, definitions), of which the
\* caller reads the entry of one key: result tells whether the tree has an
\* entry for every key of the structure and for no other key
RelevanceTreeCall(key) ==
    LET tree == GetRelevanceTree(structure, definitions) IN
    /\ engineOut = NoOutcome
    /\ engineOut' = [op |-> "getRelevanceTree", key |-> key,
                     currentValues |-> NoOutcome.currentValues,
                     result |-> (DOMAIN tree =
                                    {structure[i].key : i \in 1..Len(structure)}),
                     errors |-> <<>>,
                     keys |-> IF key \in DOMAIN tree THEN tree[key] ELSE <<>>,
                     ncalls |-> 1]
    /\ UNCHANGED <<structure, definitions, storeVars, thrOpen, thrPending,
                   mockVars, adapterVars, builderVars,
                               templateOut, provider>>

NextDependents ==
    \/ \E k \in SettingKeys : DependentSettingsCall(k)
    \/ \E k \in SettingKeys : RelevanceTreeCall(k)

SpecDependents == InitDependents /\ [][NextDependents]_vars

(***************************************************************************)
(* A storage adapter called directly.  A MemoryStorageAdapter starts with  *)
(* an empty Map of its own.  A LocalStorageAdapter starts on a             *)
(* localStorage that may hold an entry under prefix + "a" (written by an   *)
(* earlier session, or damaged) and entries of other code.                 *)
(***************************************************************************)
InitAdapter ==
    /\ InitStore
    /\ config # "none"
    /\ structure = <<>>
    /\ definitions = <<>>
    /\ engineOut = NoOutcome
    /\ written = EmptyRecord
    /\ adapterOut = NoAdapterCall
    /\ BuilderUnused
    /\ templateOut = NoTemplateCall
    /\ provider = NoProvider
    /\ IF config = "memory"
       THEN backing = EmptyBacking
       ELSE \E own \in {Null, Serialize(VNum(15)), MalformedText, NullText, EmptyText},
               foreign \in [ForeignKeys -> {Null, ForeignText}] :
                backing = [fk \in BackingKeys |->
                              IF fk = GetKey("a") THEN own
                              ELSE IF fk \in ForeignKeys THEN foreign[fk]
                              ELSE Null]

\* the full keys under which the map holds an entry that a clear removes
RemovedByClear(store) == {fk \in DOMAIN store : store[fk] # ClearPrefixed(store)[fk]}

\* storage.get(key)
StorageGet(k) ==
    /\ IF config = "memory"
       THEN /\ adapterOut' = [op |-> "get", key |-> k, value |-> Null,
                              ret |-> MemoryGet(backing, k), threw |-> FALSE,
                              removed |-> {}]
            /\ UNCHANGED backing
       ELSE LET r == LocalGet(backing, k) IN
            /\ adapterOut' = [op |-> "get", key |-> k, value |-> Null,
                              ret |-> r.ret, threw |-> FALSE,
                              removed |-> {fk \in BackingKeys : r.store[fk] # backing[fk]}]
            /\ backing' = r.store
    /\ UNCHANGED <<written, storeVars, thrOpen, thrPending, mockVars, engineVars, builderVars,
                templateOut, provider>>

\* storage.set(key, value), the value stored
StorageSet(k, v) ==
    /\ backing' = IF config = "memory" THEN MemorySet(backing, k, v)
                  ELSE LocalSet(backing, k, v)
    /\ written' = [written EXCEPT ![k] = v]
    /\ adapterOut' = [op |-> "set", key |-> k, value |-> v, ret |-> Null,
                      threw |-> FALSE, removed |-> {}]
    /\ UNCHANGED <<storeVars, thrOpen, thrPending, mockVars, engineVars, builderVars,
                templateOut, provider>>

\* LocalStorageAdapter.set when setItem throws: the error is rethrown
StorageSetThrows(k, v) ==
    /\ config = "local"
    /\ v # Null
    /\ adapterOut' = [op |-> "set", key |-> k, value |-> v, ret |-> Null,
                      threw |-> TRUE, removed |-> {}]
    /\ UNCHANGED <<backing, written, storeVars, thrOpen, thrPending, mockVars,
                   engineVars, builderVars,
                               templateOut, provider>>

\* storage.delete(key)
StorageDelete(k) ==
    /\ backing' = IF config = "memory" THEN MemoryDelete(backing, k)
                  ELSE LocalDelete(backing, k)
    /\ written' = [written EXCEPT ![k] = Null]
    /\ adapterOut' = [op |-> "delete", key |-> k, value |-> Null, ret |-> Null,
                      threw |-> FALSE, removed |-> {}]
    /\ UNCHANGED <<storeVars, thrOpen, thrPending, mockVars, engineVars, builderVars,
                templateOut, provider>>

\* storage.clear()
StorageClear ==
    /\ backing' = ClearPrefixed(backing)
    /\ written' = EmptyRecord
    /\ adapterOut' = [op |-> "clear", key |-> "none", value |-> Null,
                      ret |-> Null, threw |-> FALSE,
                      removed |-> RemovedByClear(backing)]
    /\ UNCHANGED <<storeVars, thrOpen, thrPending, mockVars, engineVars, builderVars,
                templateOut, provider>>

NextAdapter ==
    \/ \E k \in Keys : StorageGet(k)
    \/ \E k \in Keys, v \in AdapterValues \cup {Null} : StorageSet(k, v)
    \/ \E k \in Keys, v \in AdapterValues : StorageSetThrows(k, v)
    \/ \E k \in Keys : StorageDelete(k)
    \/ StorageClear

SpecAdapter == InitAdapter /\ [][NextAdapter]_vars

(***************************************************************************)
(* A builder chain on a new SettingsBuilder: one action per method of the  *)
(* fluent interface, enabled where the builder the chain is at has the     *)
(* method.  buildWithValidation is a method of the SettingsBuilder only    *)
(* and is called on the object the chain started from.                     *)
(***************************************************************************)
InitBuilder == Init /\ config = "none"

otherVars == <<storeVars, thrOpen, thrPending, mockVars, engineVars, adapterVars,
               templateOut, provider>>

SettingKeyInputs == {"", "k1", "k2"}

TabInputs == { NewTab("t1", "T1"), NewTab("t2", "T2"), NewTab("", "T1"),
               NewTab("t1", "") }

GroupTitles == {"", "g1"}

GroupSettingsInputs == { <<>>, <<"k1">>, <<"k1", "k3">> }

\* the call is the next of the chain
ChainCall == nchain < MaxChain /\ nchain' = nchain + 1

\* the last element of a non-empty list replaced
ReplaceLast(list, x) == [list EXCEPT ![Len(list)] = x]

\* .setting(key) on the SettingsBuilder, a SettingBuilder or a TabBuilder
BuilderSetting(key) ==
    LET r == FinishToRoot(builder) IN
    /\ ChainCall
    /\ builder.at \in {"root", "setting", "tab"}
    /\ builder' = IF r.threw THEN r.b
                  ELSE [r.b EXCEPT !.at = "setting",
                                   !.definition = NewDefinition(key)]
    /\ declared' = [declared EXCEPT !.keys = Append(@, key)]
    /\ builderOut' = BuilderCall("setting", r)
    /\ UNCHANGED otherVars

\* .type(type) on a SettingBuilder
SettingType(type) ==
    /\ ChainCall
    /\ builder.at = "setting"
    /\ builder' = [builder EXCEPT !.definition.type = type]
    /\ builderOut' = BuilderCall("type", Finished(builder))
    /\ UNCHANGED <<declared, otherVars>>

\* .defaultValue(value) on a SettingBuilder
SettingDefaultValue(value) ==
    /\ ChainCall
    /\ builder.at = "setting"
    /\ builder' = [builder EXCEPT !.definition.defaultValue = value]
    /\ builderOut' = BuilderCall("defaultValue", Finished(builder))
    /\ UNCHANGED <<declared, otherVars>>

\* .tab(id, label) on any builder
BuilderTab(tab) ==
    LET r == FinishToRoot(builder) IN
    /\ ChainCall
    /\ builder.at \in {"root", "setting", "tab", "group"}
    /\ builder' = IF r.threw THEN r.b
                  ELSE [r.b EXCEPT !.at = "tab", !.tabData = tab]
    /\ declared' = [declared EXCEPT !.tabs = Append(@, tab)]
    /\ builderOut' = BuilderCall("tab", r)
    /\ UNCHANGED otherVars

\* .group(title) on a TabBuilder, or on a GroupBuilder, which finishes first
TabGroup(title) ==
    LET r == IF builder.at = "group" THEN GroupFinish(builder)
             ELSE Finished(builder)
    IN
    /\ ChainCall
    /\ builder.at \in {"tab", "group"}
    /\ builder' = IF r.threw THEN r.b
                  ELSE [r.b EXCEPT !.at = "group", !.groupData = NewGroup(title)]
    /\ declared' = [declared EXCEPT
                       !.tabs = ReplaceLast(@, [@[Len(@)] EXCEPT
                                    !.groups = Append(@, NewGroup(title))])]
    /\ builderOut' = BuilderCall("group", r)
    /\ UNCHANGED otherVars

\* the group declared last, with its settings replaced
WithSettingsOfLastGroup(tabs, settings) ==
    LET tab == tabs[Len(tabs)]
        group == tab.groups[Len(tab.groups)]
    IN  ReplaceLast(tabs, [tab EXCEPT !.groups =
            ReplaceLast(@, [group EXCEPT !.settings = settings])])

\* .settings(keys) on a GroupBuilder: sets the list, finishes the group and
\* returns the TabBuilder
GroupSettings(keys) ==
    LET r == GroupFinish([builder EXCEPT !.groupData.settings = keys]) IN
    /\ ChainCall
    /\ builder.at = "group"
    /\ builder' = IF r.threw THEN r.b ELSE [r.b EXCEPT !.at = "tab"]
    /\ declared' = [declared EXCEPT !.tabs = WithSettingsOfLastGroup(@, keys)]
    /\ builderOut' = BuilderCall("settings", r)
    /\ UNCHANGED otherVars

\* .setting(key) on a GroupBuilder: groupData.settings.push({ key })
GroupSetting(key) ==
    /\ ChainCall
    /\ builder.at = "group"
    /\ builder' = [builder EXCEPT !.groupData.settings = Append(@, key)]
    /\ declared' =
          [declared EXCEPT !.tabs = WithSettingsOfLastGroup(@,
              Append(builder.groupData.settings, key))]
    /\ builderOut' = BuilderCall("groupSetting", Finished(builder))
    /\ UNCHANGED otherVars

\* .build() on any builder
Build ==
    LET r == FinishToRoot(builder) IN
    /\ ChainCall
    /\ builder.at \in {"root", "setting", "tab", "group"}
    /\ builder' = IF r.threw THEN r.b ELSE [r.b EXCEPT !.at = "returned"]
    /\ builderOut' = [BuilderCall("build", r) EXCEPT
                         !.config = IF r.threw THEN NoConfiguration
                                    ELSE SettingsBuild(r.b)]
    /\ UNCHANGED <<declared, otherVars>>

\* build() on the SettingsBuilder the chain started from, after the chain:
\* the sub-builder the chain ended on is not involved
RootBuild ==
    /\ builder.at \in {"root", "setting", "tab", "group", "returned"}
    /\ builderOut' = [BuilderCall("rootBuild", Finished(builder)) EXCEPT
                         !.config = SettingsBuild(builder)]
    /\ UNCHANGED <<builder, declared, nchain, otherVars>>

\* buildWithValidation() on the SettingsBuilder the chain started from
BuildWithValidationCall ==
    LET r == BuildWithValidation(builder) IN
    /\ builderOut' = [op |-> "buildWithValidation", threw |-> r.threw,
                      error |-> NoError, config |-> r.config,
                      missing |-> r.missing, unused |-> r.unused]
    /\ UNCHANGED <<builder, declared, nchain, otherVars>>

NextBuilder ==
    \/ \E key \in SettingKeyInputs : BuilderSetting(key)
    \/ SettingType("number")
    \/ \E v \in SettingValue : SettingDefaultValue(v)
    \/ \E tab \in TabInputs : BuilderTab(tab)
    \/ \E title \in GroupTitles : TabGroup(title)
    \/ \E keys \in GroupSettingsInputs : GroupSettings(keys)
    \/ GroupSetting("k2")
    \/ Build
    \/ RootBuild
    \/ BuildWithValidationCall

SpecBuilder == InitBuilder /\ [][NextBuilder]_vars

(***************************************************************************)
(* The templates called.  The conditions: the leaves (always, never,       *)
(* dependsOn of two keys) and their negations, allOf and anyOf of up to    *)
(* two of those, and the negations of these.                               *)
(***************************************************************************)
Leaves == {TAlways, TNever, TDependsOn("k1"), TDependsOn("k2")}

Literals == Leaves \cup {TNot(c) : c \in Leaves}

UpToTwo(S) == {<<>>} \cup {<<c>> : c \in S} \cup {<<c, d>> : c \in S, d \in S}

Combined == {TAllOf(cs) : cs \in UpToTwo(Literals)}
                \cup {TAnyOf(cs) : cs \in UpToTwo(Literals)}

Conditions == Literals \cup Combined \cup {TNot(c) : c \in Combined}

InitTemplates == Init /\ config = "none"

\* fn(settings) for a relevance function built from the templates
TemplateCall(fn, settings) ==
    /\ ~templateOut.called
    /\ templateOut' = [fn |-> fn, called |-> TRUE, settings |-> settings,
                       result |-> CallCondition(fn, settings)]
    /\ UNCHANGED <<storeVars, thrOpen, thrPending, mockVars, engineVars,
                   adapterVars, builderVars, provider>>

NextTemplates == \E fn \in Conditions, settings \in Snapshots : TemplateCall(fn, settings)

SpecTemplates == InitTemplates /\ [][NextTemplates]_vars

(***************************************************************************)
(* SettingsProvider: initializeSettings, run by the effect of the provider *)
(* on the store of the React context.  That store's setValues does not     *)
(* validate: it awaits Promise.all of one storage.set per entry and hands  *)
(* the merge to throttledSet.  The adapter is a MemoryStorageAdapter or a  *)
(* LocalStorageAdapter that may hold values written before the provider    *)
(* mounts.  Both adapters do their work in the synchronous part of get and *)
(* set, so the call of an awaited get or set and its effect on the backing *)
(* map are one step with the code that leads to it.                        *)
(***************************************************************************)
\* values found in storage at mount
PersistedValues == {VNum(0), VNum(15), [t |-> "boolean", n |-> 0],
                    [t |-> "string", n |-> 0]}

\* the controllers prop, in array order
ControllersProp(props) ==
    SelectSeq(<<"a", "b">>, LAMBDA k : props[k] # NoController)

\* config.storage.get(key): the value returned and the backing map afterwards
ProviderStorageGet(cfg, store, key) ==
    IF cfg = "local" THEN LocalGet(store, key)
    ELSE [ret |-> MemoryGet(store, key), store |-> store]

\* config.storage.set(key, value) that does not throw
ProviderStorageSet(cfg, store, key, value) ==
    IF cfg = "local" THEN LocalSet(store, key, value)
    ELSE MemorySet(store, key, value)

\* the value storage holds for key, none when it holds no entry
HeldValue(cfg, store, key) ==
    IF store[GetKey(key)] = Null THEN Null
    ELSE IF cfg = "local" THEN Deserialize(store[GetKey(key)])
         ELSE store[GetKey(key)]

RECURSIVE SetEach(_, _, _, _, _)
\* Object.entries(updates).map(([key, value]) => storage.set(key, value)):
\* every set is called; those of the keys in fails throw and store nothing
SetEach(cfg, store, keys, updates, fails) ==
    IF keys = <<>> THEN store
    ELSE LET key == Head(keys)
             after == IF key \in fails THEN store
                      ELSE ProviderStorageSet(cfg, store, key, updates[key])
         IN  SetEach(cfg, after, Tail(keys), updates, fails)

\* {...defaultValues, ...storedValues without null and undefined}
FinalValuesOf(defaultValues, storedValues) ==
    [k \in Keys |-> IF storedValues[k] # Null THEN storedValues[k]
                    ELSE defaultValues[k]]

\* the entries of finalValues the save-back loop writes:
\* !storedValues[key] && value !== null && value !== undefined
SaveBackKeys(props, storedValues, finalValues) ==
    SelectSeq(ControllersProp(props),
              LAMBDA k : ~Truthy(storedValues[k]) /\ finalValues[k] # Null)

InitProvider ==
    /\ InitStore
    /\ structure = <<>>
    /\ definitions = <<>>
    /\ engineOut = NoOutcome
    /\ written = EmptyRecord
    /\ adapterOut = NoAdapterCall
    /\ BuilderUnused
    /\ templateOut = NoTemplateCall
    /\ \E props \in [Keys -> SettingController \cup {NoController}],
          stored \in [Keys -> PersistedValues \cup {Null}] :
          /\ backing = [fk \in BackingKeys |->
                           IF config # "none" /\ \E k \in Keys : fk = GetKey(k)
                           THEN LET k == CHOOSE x \in Keys : fk = GetKey(x)
                                IN  IF stored[k] = Null THEN Null
                                    ELSE StoredForm(config, stored[k])
                           ELSE Null]
          /\ provider = [NoProvider EXCEPT
                             !.controllers = props,
                             !.held = [k \in Keys |->
                                          IF config = "none" THEN Null
                                          ELSE stored[k]]]

\* the setValues call of initializeSettings up to its await: with storage
\* one storage.set per entry, of which those in fails throw
ProviderCallsSetValues(storedValues, finalValues, fails) ==
    /\ backing' = SetEach(config, backing, <<"a", "b">>,
                          finalValues, fails \cup {k \in Keys : finalValues[k] = Null})
    /\ provider' = [provider EXCEPT !.pc = "setting",
                                    !.storedValues = storedValues,
                                    !.finalValues = finalValues,
                                    !.next = <<>>,
                                    !.rejected = fails # {}]

\* initializeSettings starts: every controller is registered; with storage
\* the first storage.get is awaited, without it setValues(defaultValues)
\* runs through to throttledSet
ProviderInitialize ==
    LET props == provider.controllers
        defaultValues == [k \in Keys |-> props[k].defaultValue]
    IN  /\ provider.pc = "idle"
        /\ controllers' = [k \in Keys |->
                               IF props[k] # NoController THEN props[k]
                               ELSE controllers[k]]
        /\ everRegistered' = everRegistered \cup {k \in Keys : props[k] # NoController}
        /\ IF config = "none"
           THEN /\ ThrottledSet(MergeUpdater(defaultValues))
                /\ provider' = [provider EXCEPT !.pc = "done",
                                                !.finalValues = defaultValues]
                /\ UNCHANGED backing
           ELSE /\ IF ControllersProp(props) = <<>>
                   THEN ProviderCallsSetValues(EmptyRecord, EmptyRecord, {})
                   ELSE /\ provider' = [provider EXCEPT
                                            !.pc = "loading",
                                            !.next = ControllersProp(props)]
                        /\ UNCHANGED backing
                /\ UNCHANGED <<values, error, thrOpen, thrPending, lastAccepted>>
        /\ UNCHANGED <<config, storage, calls, detached, nops, lastEvent,
                       persisted, mockVars, engineVars, written, adapterOut,
                       builderVars, templateOut>>

\* an awaited storage.get returns: the value is kept unless it is null;
\* after the last controller finalValues is built and setValues is called
ProviderLoad(fails) ==
    LET props == provider.controllers
        key == Head(provider.next)
        got == ProviderStorageGet(config, backing, key)
        storedValues == [provider.storedValues EXCEPT ![key] = got.ret]
        defaultValues == [k \in Keys |-> props[k].defaultValue]
        finalValues == FinalValuesOf(defaultValues, storedValues)
    IN  /\ provider.pc = "loading"
        /\ fails \subseteq ObjectKeys(finalValues)
        /\ fails # {} => CanReject(config) /\ Len(provider.next) = 1
        /\ IF Len(provider.next) > 1
           THEN /\ backing' = got.store
                /\ provider' = [provider EXCEPT !.storedValues = storedValues,
                                                !.next = Tail(provider.next)]
           ELSE /\ backing' = SetEach(config, got.store, <<"a", "b">>, finalValues,
                                      fails \cup {k \in Keys : finalValues[k] = Null})
                /\ provider' = [provider EXCEPT !.pc = "setting",
                                                !.storedValues = storedValues,
                                                !.finalValues = finalValues,
                                                !.next = <<>>,
                                                !.rejected = fails # {}]
        /\ UNCHANGED <<storeVars, thrOpen, thrPending, mockVars, engineVars,
                       written, adapterOut, builderVars, templateOut>>

\* the Promise.all of setValues settles.  Rejected: the store records the
\* error and initializeSettings ends in its catch.  Resolved: the merge goes
\* to throttledSet and the save-back loop runs up to its first awaited set,
\* which throws when fail is set.
ProviderSetValuesSettles(fail) ==
    LET saveBack == SaveBackKeys(provider.controllers, provider.storedValues,
                                 provider.finalValues)
    IN  /\ provider.pc = "setting"
        /\ fail => CanReject(config) /\ ~provider.rejected /\ saveBack # <<>>
        /\ IF provider.rejected
           THEN /\ Catch("storage")
                /\ provider' = [provider EXCEPT !.pc = "failed"]
                /\ UNCHANGED backing
           ELSE /\ ThrottledSet(MergeUpdater(provider.finalValues))
                /\ IF saveBack = <<>>
                   THEN /\ provider' = [provider EXCEPT !.pc = "done"]
                        /\ UNCHANGED backing
                   ELSE IF fail
                        THEN /\ provider' = [provider EXCEPT !.pc = "failed"]
                             /\ UNCHANGED backing
                        ELSE /\ backing' = ProviderStorageSet(
                                              config, backing, Head(saveBack),
                                              provider.finalValues[Head(saveBack)])
                             /\ provider' = [provider EXCEPT
                                                 !.pc = "saving",
                                                 !.next = Tail(saveBack)]
        /\ UNCHANGED <<controllers, config, storage, calls, detached, nops,
                       lastEvent, everRegistered, persisted, mockVars,
                       engineVars, written, adapterOut, builderVars,
                       templateOut>>

\* an awaited storage.set of the save-back loop has resolved: the next
\* entry is written, or the loop and initializeSettings end
ProviderSaveBack(fail) ==
    /\ provider.pc = "saving"
    /\ fail => CanReject(config) /\ provider.next # <<>>
    /\ IF provider.next = <<>>
       THEN /\ provider' = [provider EXCEPT !.pc = "done"]
            /\ UNCHANGED backing
       ELSE IF fail
            THEN /\ provider' = [provider EXCEPT !.pc = "failed"]
                 /\ UNCHANGED backing
            ELSE /\ backing' = ProviderStorageSet(
                                  config, backing, Head(provider.next),
                                  provider.finalValues[Head(provider.next)])
                 /\ provider' = [provider EXCEPT !.next = Tail(provider.next)]
    /\ UNCHANGED <<storeVars, thrOpen, thrPending, mockVars, engineVars,
                   written, adapterOut, builderVars, templateOut>>

NextProvider ==
    \/ ProviderInitialize
    \/ \E fails \in SUBSET Keys : ProviderLoad(fails)
    \/ \E fail \in BOOLEAN : ProviderSetValuesSettles(fail)
    \/ \E fail \in BOOLEAN : ProviderSaveBack(fail)
    \/ ThrottleTimer

SpecProvider == InitProvider /\ [][NextProvider]_vars

(***************************************************************************)
(* Properties of the store and of the throttle.                            *)
(***************************************************************************)
\* a step in which a call is made on the store
CallStep == nops' = nops + 1

\* a step in which a call reaches throttledSet: its write is accepted
AcceptStep ==
    /\ lastEvent'.res = "accepted"
    /\ CallStep \/ Len(calls') < Len(calls)

\* a step in which the adapter rejects a storage.set of a suspended call
StorageFailureStep ==
    /\ lastEvent'.res = "failed"
    /\ Len(calls') < Len(calls)

\* no call is suspended and no storage.set is running
Quiescent == calls = <<>> /\ detached = {}

\* C1: once the throttle has no pending update, the snapshot holds, for
\* every key written, the value of the most recent accepted write to it.
C1_NoValueDropped ==
    thrPending = NoArgs =>
        \A k \in Keys : lastAccepted[k] # Null => values[k] = lastAccepted[k]

\* C2: after an accepted setValue(k, v), once the throttle has nothing
\* pending, the snapshot holds v for k and get(k) on the configured adapter
\* returns v.
C2_RoundTrip ==
    ( /\ lastEvent.op = "setValue"
      /\ lastEvent.res = "accepted"
      /\ Quiescent
      /\ thrPending = NoArgs )
    => \A k \in ObjectKeys(lastEvent.upd) :
          /\ values[k] = lastEvent.upd[k]
          /\ config # "none" => AdapterGet(config, storage, k) = lastEvent.upd[k]

\* the validator of the controller registered for k rejects v
ValidatorRejects(k, v) ==
    /\ controllers[k] # NoController
    /\ controllers[k].schema = "range"
    /\ ~(v.t = "number" /\ 0 <= v.n /\ v.n <= 10)

\* the step leaves the snapshot, the pending update and the storage alone
\* and issues no storage.set
NothingWritten ==
    /\ values' = values
    /\ thrPending' = thrPending
    /\ thrOpen' = thrOpen
    /\ lastAccepted' = lastAccepted
    /\ storage' = storage
    /\ persisted' = persisted
    /\ calls' = calls
    /\ detached' = detached

\* the step hands the merge of upd to the apply step: applied at once by an
\* idle throttle, made the pending update by a running one
HandedToApply(upd) ==
    IF thrOpen
    THEN thrPending' = MergeUpdater(upd) /\ values' = values
    ELSE /\ \A k \in Keys : values'[k] = IF upd[k] # Null THEN upd[k] ELSE values[k]
         /\ error' = "null"

\* C3: setValue(k, v) with a validator that rejects v rejects, issues no
\* storage.set, leaves values and the pending update unchanged and records a
\* non-null error; a setValue the validator accepts is not rejected, and
\* when it is accepted its value is handed to the apply step.
C3_ValidationRejects ==
    [][ \A k \in Keys, v \in SettingValue :
          /\ ( /\ CallStep
               /\ lastEvent'.op = "setValue"
               /\ lastEvent'.upd = Single(k, v) )
             => IF ValidatorRejects(k, v)
                THEN /\ lastEvent'.res = "rejected"
                     /\ NothingWritten
                     /\ error' # "null"
                ELSE lastEvent'.res \in {"issued", "accepted"}
          /\ ( /\ AcceptStep
               /\ lastEvent'.op = "setValue"
               /\ lastEvent'.upd = Single(k, v) )
             => HandedToApply(Single(k, v)) ]_vars

\* C3 witness: key a holds 0, its controller validates 0..10, and
\* setValue(a, 15) has just been rejected with the error recorded.
C3_Witness ==
    /\ lastEvent = Event("setValue", Single("a", VNum(15)), "rejected", NoneIssued)
    /\ controllers["a"].schema = "range"
    /\ values["a"] = VNum(0)
    /\ error = "validation"

\* C4: a setValues batch in which some key's validator rejects its
\* candidate is rejected as a whole: no storage.set is issued, no key of the
\* batch changes in the snapshot or in storage, and the error is recorded.
C4_BatchFailFast ==
    [][ \A upd \in BatchInputs :
          ( /\ CallStep
            /\ lastEvent'.op = "setValues"
            /\ lastEvent'.upd = upd )
          => IF \E k \in ObjectKeys(upd) : ValidatorRejects(k, upd[k])
             THEN /\ lastEvent'.res = "rejected"
                  /\ NothingWritten
                  /\ error' # "null"
             ELSE lastEvent'.res \in {"issued", "accepted"} ]_vars

\* C4 witness: the batch {a: 0, b: 15}, valid for a and invalid for b, has
\* just been rejected, with a storage adapter configured.
C4_Witness ==
    /\ lastEvent = Event("setValues", [a |-> VNum(0), b |-> VNum(15)],
                         "rejected", NoneIssued)
    /\ config # "none"
    /\ error = "validation"
    /\ values = EmptyRecord
    /\ storage = EmptyRecord

\* C5: when the adapter rejects a storage.set of a call, the call is
\* rejected, the snapshot and the pending update are left as they were, the
\* write does not count as accepted, and a non-null error is recorded.
C5_StorageFailure ==
    [][ StorageFailureStep =>
          /\ values' = values
          /\ thrPending' = thrPending
          /\ thrOpen' = thrOpen
          /\ lastAccepted' = lastAccepted
          /\ error' # "null" ]_vars

\* C5 witness: key a holds 0 and a later setValue(a, 15) has just failed in
\* the adapter.
C5_Witness ==
    /\ lastEvent.res = "failed"
    /\ lastEvent.upd = Single("a", VNum(15))
    /\ values["a"] = VNum(0)
    /\ error = "storage"

\* the last element of a non-empty sequence
Last(seq) == seq[Len(seq)]

\* C6: a call on an idle throttle invokes the wrapped function at once with
\* its arguments; a call inside the window invokes nothing; when the window
\* elapses the wrapped function is invoked once more, with the last call's
\* arguments, if and only if two or more calls were made in the window.
C6_Throttle ==
    [][ /\ nthr' = nthr + 1 =>
             IF thrOpen
             THEN mockCalls' = mockCalls
             ELSE mockCalls' = Append(mockCalls, Last(winArgs'))
                  /\ Len(winArgs') = 1
        /\ (thrOpen /\ ~thrOpen') =>
             IF Len(winArgs) >= 2
             THEN mockCalls' = Append(mockCalls, Last(winArgs))
             ELSE mockCalls' = mockCalls ]_vars

\* C6 witness: three calls were made in one window, with different
\* arguments, the window has elapsed, and the mock was invoked exactly
\* twice: with the first call's and with the last call's arguments.
C6_Witness ==
    /\ ~thrOpen
    /\ nthr = 3
    /\ Len(winArgs) = 3
    /\ winArgs[1] # winArgs[2]
    /\ winArgs[2] # winArgs[3]
    /\ mockCalls = <<winArgs[1], winArgs[3]>>

\* C7: no storage.set is issued by a setValue or setValues whose validation
\* failed; with an adapter configured, a key of the snapshot is only ever
\* set to a value some storage.set has stored for that key; and a call whose
\* write is accepted has issued exactly one storage.set per key it writes.
C7_PipelineOrder ==
    [][ /\ ( /\ CallStep
             /\ lastEvent'.op \in {"setValue", "setValues"}
             /\ \E k \in ObjectKeys(lastEvent'.upd) :
                    ValidatorRejects(k, lastEvent'.upd[k]) )
           => calls' = calls /\ storage' = storage /\ persisted' = persisted
        /\ \A k \in Keys :
             (config # "none" /\ values'[k] # values[k] /\ values'[k] # Null)
             => <<k, values'[k]>> \in persisted'
        /\ (AcceptStep /\ config # "none")
           => \A k \in Keys :
                IF lastEvent'.upd[k] # Null
                THEN /\ lastEvent'.issued[k] = 1
                     /\ <<k, lastEvent'.upd[k]>> \in persisted'
                ELSE lastEvent'.issued[k] = 0 ]_vars

\* C7 witness: with an adapter configured, a two-key batch was accepted
\* after both of its storage.set calls resolved, was coalesced by the
\* throttle, and has been applied by the trailing call.
C7_Witness ==
    /\ config # "none"
    /\ lastEvent = Event("setValues", [a |-> VNum(15), b |-> VNum(0)],
                         "accepted", [a |-> 1, b |-> 1])
    /\ ~thrOpen
    /\ values = [a |-> VNum(15), b |-> VNum(0)]
    /\ lastAccepted = values
    /\ nops = 2

\* the keys some storage.set has stored a value for
WrittenKeys == {k \in Keys : \E v \in SettingValue : <<k, v>> \in persisted}

\* C8: whenever no store operation is in flight and the throttle has no
\* pending update, every key written with an adapter configured has the
\* same value in storage (adapter get) as in the snapshot.
C8_StorageMatchesSnapshot ==
    (config # "none" /\ Quiescent /\ thrPending = NoArgs)
    => \A k \in WrittenKeys : AdapterGet(config, storage, k) = values[k]

\* C9: every key present in the snapshot has, or once had, a registered
\* controller.
C9_SnapshotKeysRegistered ==
    \A k \in Keys : values[k] # Null => k \in everRegistered

\* C10: a value that enters the snapshot satisfies the validator of the
\* controller registered for its key at the moment it is written.
C10_WrittenValuesValid ==
    [][ \A k \in Keys :
          (values'[k] # values[k] /\ values'[k] # Null)
          => ~ValidatorRejects(k, values'[k]) ]_vars

\* every call has completed and the throttle window has elapsed
Settled == Quiescent /\ ~thrOpen

\* C11: concurrent setValue calls on pairwise distinct keys: once all calls
\* have completed and the throttle window has elapsed, every key written
\* holds its written value in the snapshot and in storage.
C11_DistinctKeysSafe ==
    Settled =>
        \A k \in Keys :
            lastAccepted[k] # Null =>
                /\ values[k] = lastAccepted[k]
                /\ storage[k] = StoredForm(config, lastAccepted[k])

\* C12: concurrent setValue calls on one key: once all calls have completed
\* and the throttle window has elapsed, the snapshot holds for that key the
\* value of the call whose storage.set completed last.
C12_SameKeyLastWriteWins ==
    (Settled /\ nops > 0) =>
        /\ lastEvent.op = "setValue"
        /\ lastEvent.res = "accepted"
        /\ \A k \in ObjectKeys(lastEvent.upd) : values[k] = lastEvent.upd[k]

\* C12 witness: setValue(a, 15) and setValue(a, 0) were in flight together,
\* both sets have been stored, the one of setValue(a, 0) completed last, the
\* window has elapsed and the snapshot holds 0.
C12_Witness ==
    /\ Settled
    /\ nops = 2
    /\ persisted = {<<"a", VNum(15)>>, <<"a", VNum(0)>>}
    /\ lastEvent = Event("setValue", Single("a", VNum(0)), "accepted",
                         [a |-> 1, b |-> 0])
    /\ values["a"] = VNum(0)

\* C13: a subscribe call returns an unsubscribe handle.
C13_SubscribeReturns ==
    lastEvent.op = "subscribe" => lastEvent.res = "unsubscribe"

\* the step leaves the snapshot, the error, the storage, the suspended calls
\* and the throttle as they were
StoreUntouched ==
    /\ values' = values
    /\ error' = error
    /\ storage' = storage
    /\ calls' = calls
    /\ thrOpen' = thrOpen
    /\ thrPending' = thrPending

\* C14: registerController and unregisterController change only the
\* controller map: registerController(c) makes c the controller of its key,
\* whatever controller and value the key had, unregisterController(k)
\* removes the controller of k, and both leave every other controller, the
\* values, the error and the storage unchanged.
C14_ControllerFrame ==
    [][ /\ \A k \in Keys, c \in SettingController :
              RegisterController(k, c) =>
                  /\ StoreUntouched
                  /\ controllers'[k] = c
                  /\ \A x \in Keys \ {k} : controllers'[x] = controllers[x]
        /\ \A k \in Keys :
              UnregisterController(k) =>
                  /\ StoreUntouched
                  /\ controllers'[k] = NoController
                  /\ \A x \in Keys \ {k} : controllers'[x] = controllers[x] ]_vars

\* C14 witness: a resetToDefault(a) issued under a controller with default
\* 15 and no schema is still awaiting its storage.set, and a has just been
\* registered again with the range schema and default 0; nothing has been
\* written.
C14_Witness ==
    /\ lastEvent.op = "registerController"
    /\ nops = 3
    /\ Len(calls) = 1
    /\ calls[1].op = "resetToDefault"
    /\ calls[1].upd = Single("a", VNum(15))
    /\ controllers["a"] = [schema |-> "range", defaultValue |-> VNum(0)]
    /\ controllers["b"] = NoController
    /\ values = EmptyRecord
    /\ storage = EmptyRecord

\* C15: resetToDefault(k) for a key without a controller resolves without
\* throwing, issues no storage.set and leaves values, controllers, error,
\* storage and the throttle unchanged.
C15_ResetUnregisteredNoop ==
    [][ \A k \in Keys :
          (ResetToDefault(k) /\ controllers[k] = NoController) =>
              /\ lastEvent'.res = "noop"
              /\ StoreUntouched
              /\ controllers' = controllers
              /\ persisted' = persisted
              /\ detached' = detached
              /\ lastAccepted' = lastAccepted ]_vars

\* C15 witness: with an adapter configured, b has the range schema and a has
\* no controller; a rejected write has left a validation error, and
\* resetToDefault(a) has just returned as a no-op with that error still set.
C15_Witness ==
    /\ lastEvent = Event("resetToDefault", EmptyRecord, "noop", NoneIssued)
    /\ config # "none"
    /\ controllers["a"] = NoController
    /\ controllers["b"].schema = "range"
    /\ error = "validation"
    /\ calls = <<>>
    /\ storage = EmptyRecord

\* the value the snapshot holds for k once the throttle window has elapsed,
\* if no further call is made
ValueOnceElapsed(k) ==
    IF thrPending # NoArgs THEN SetStateValues(thrPending, values)[k]
    ELSE values[k]

\* C16: resetToDefault(k) of a registered key takes the controller's default
\* as its candidate; when it is accepted, the value k holds once the window
\* has elapsed and the value stored for k are that default, so a second
\* resetToDefault(k) in a row, finding both already there, changes neither.
C16_ResetIdempotent ==
    [][ \A k \in Keys :
          /\ (ResetToDefault(k) /\ controllers[k] # NoController) =>
                lastEvent'.upd = Single(k, controllers[k].defaultValue)
          /\ ( /\ AcceptStep
               /\ lastEvent'.op = "resetToDefault"
               /\ lastEvent'.upd[k] # Null ) =>
                LET d == lastEvent'.upd[k] IN
                /\ ValueOnceElapsed(k)' = d
                /\ config # "none" => storage'[k] = StoredForm(config, d)
                /\ ( /\ ValueOnceElapsed(k) = d
                     /\ config # "none" => storage[k] = StoredForm(config, d) )
                   => /\ ValueOnceElapsed(k)' = ValueOnceElapsed(k)
                      /\ storage'[k] = storage[k] ]_vars

\* C16 witness: a is registered with default 15; resetToDefault(a) was
\* called twice in a row: the first call has been accepted, snapshot and
\* storage hold 15, and the second call is awaiting its storage.set.
C16_Witness ==
    /\ nops = 3
    /\ config # "none"
    /\ controllers["a"].defaultValue = VNum(15)
    /\ lastEvent = Event("resetToDefault", Single("a", VNum(15)), "accepted",
                         [a |-> 1, b |-> 0])
    /\ Len(calls) = 1
    /\ calls[1].op = "resetToDefault"
    /\ calls[1].upd = Single("a", VNum(15))
    /\ values["a"] = VNum(15)
    /\ storage["a"] = StoredForm(config, VNum(15))

\* C17: the apply step of an accepted resetAllToDefaults merges the
\* defaults into the snapshot: once the window has elapsed every key with a
\* controller holds its default and every other key holds the value it had.
C17_ResetAllMerges ==
    [][ (AcceptStep /\ lastEvent'.op = "resetAllToDefaults") =>
          \A k \in Keys :
              ValueOnceElapsed(k)' =
                  IF lastEvent'.upd[k] # Null THEN lastEvent'.upd[k]
                  ELSE ValueOnceElapsed(k) ]_vars

\* the isRelevant of the entry for key in a list of items or definitions
\* that holds at most one entry per key; none when there is no entry
PredicateFor(arr, key) ==
    IF \E i \in 1..Len(arr) : arr[i].key = key
    THEN (CHOOSE r \in {arr[i] : i \in 1..Len(arr)} : r.key = key).isRelevant
    ELSE NoPredicate

\* the predicate is absent or true on the snapshot
AbsentOrTrue(fn, snapshot) ==
    fn = NoPredicate \/ \A k \in fn.reads : snapshot[k]

\* C18: evaluate(key, structure, definitions, snapshot) is the conjunction
\* of (definition predicate absent or true on the snapshot) and (structure
\* item predicate absent or true on the snapshot); in particular it is true
\* for a key with no definition and no structure item.
C18_EvaluateIsConjunction ==
    engineOut.op = "evaluate" =>
        engineOut.result =
            ( /\ AbsentOrTrue(PredicateFor(definitions, engineOut.key),
                              engineOut.currentValues)
              /\ AbsentOrTrue(PredicateFor(structure, engineOut.key),
                              engineOut.currentValues) )

\* C18 witness: k2 has a definition predicate reading k1 and an item
\* predicate reading k3; on a snapshot where k1 is truthy and k3 is not the
\* definition predicate holds, the item predicate fails, and evaluate
\* returned false.
C18_Witness ==
    /\ engineOut.op = "evaluate"
    /\ engineOut.key = "k2"
    /\ PredicateFor(definitions, "k2") = InlinePredicate({"k1"})
    /\ PredicateFor(structure, "k2") = InlinePredicate({"k3"})
    /\ engineOut.currentValues = [k1 |-> TRUE, k2 |-> FALSE, k3 |-> FALSE]
    /\ engineOut.result = FALSE

\* the keys of the structure
StructureKeys == {structure[i].key : i \in 1..Len(structure)}

\* key j depends on key k: a predicate of j, on its definition or on its
\* structure item, references k
DependsOn(j, k) ==
    \/ k \in PredicateFor(definitions, j).reads
    \/ k \in PredicateFor(structure, j).reads

\* the keys an edge of the dependency graph leads to from a key of S
Dependents(S) == {j \in StructureKeys : \E k \in S : DependsOn(j, k)}

RECURSIVE ReachableWithin(_, _)
\* the keys reached from S along one to n edges
ReachableWithin(S, n) ==
    IF n <= 1 THEN Dependents(S)
    ELSE Dependents(S) \cup ReachableWithin(Dependents(S), n - 1)

\* k lies on a cycle of the dependency graph
OnCycle(k) ==
    k \in StructureKeys /\ k \in ReachableWithin({k}, Cardinality(StructureKeys))

\* C19: validateRelevanceTree returns valid = true and no error if the
\* dependency graph over the structure's keys is acyclic, and valid = false
\* with at least one error if it has a cycle (self-references included).
C19_ValidIffAcyclic ==
    engineOut.op = "validateRelevanceTree" =>
        IF \E k \in StructureKeys : OnCycle(k)
        THEN ~engineOut.result /\ Len(engineOut.errors) >= 1
        ELSE engineOut.result /\ engineOut.errors = <<>>

\* C19 witness: the three keys form one cycle (k1 read by k2, k2 by k3, k3
\* by k1, no other reference) and validateRelevanceTree returned invalid.
C19_Witness ==
    /\ engineOut.op = "validateRelevanceTree"
    /\ definitions = <<>>
    /\ structure = << [key |-> "k1", isRelevant |-> InlinePredicate({"k3"})],
                      [key |-> "k2", isRelevant |-> InlinePredicate({"k1"})],
                      [key |-> "k3", isRelevant |-> InlinePredicate({"k2"})] >>
    /\ ~engineOut.result
    /\ Len(engineOut.errors) = 1

\* C20: validateRelevanceTree names every key that lies on a cycle of the
\* dependency graph in some error.
C20_EveryCycleNodeNamed ==
    engineOut.op = "validateRelevanceTree" =>
        \A k \in StructureKeys :
            OnCycle(k) => \E i \in 1..Len(engineOut.errors) : engineOut.errors[i] = k

\* C21: in the errors validateRelevanceTree returns no key is named by more
\* than one error.
C21_NoKeyNamedTwice ==
    engineOut.op = "validateRelevanceTree" =>
        \A i, j \in 1..Len(engineOut.errors) :
            engineOut.errors[i] = engineOut.errors[j] => i = j

\* how many times a key occurs in a list of keys
Occurrences(list, k) == Cardinality({i \in 1..Len(list) : list[i] = k})

\* the list holds every key of the structure exactly once and nothing else
EachStructureKeyOnce(list) ==
    /\ \A k \in StructureKeys : Occurrences(list, k) = 1
    /\ \A i \in 1..Len(list) : list[i] \in StructureKeys

\* the position of a key that occurs once in a list
PositionOf(list, k) == CHOOSE i \in 1..Len(list) : list[i] = k

\* C22: on an acyclic dependency graph getDependencyOrder returns every
\* distinct key of the structure exactly once, and every key that a
\* setting's predicate references comes before that setting.
C22_DependenciesFirst ==
    (engineOut.op = "getDependencyOrder" /\ ~\E k \in StructureKeys : OnCycle(k))
        => /\ engineOut.result
           /\ EachStructureKeyOnce(engineOut.keys)
           /\ \A j, k \in StructureKeys :
                  DependsOn(j, k) =>
                      PositionOf(engineOut.keys, k) < PositionOf(engineOut.keys, j)

\* C22 witness: k1 reads k2 and k2 reads k3, against the order of the
\* structure; the list returned is k3, k2, k1.
C22_Witness ==
    /\ engineOut.op = "getDependencyOrder"
    /\ definitions = <<>>
    /\ structure = << [key |-> "k1", isRelevant |-> InlinePredicate({"k2"})],
                      [key |-> "k2", isRelevant |-> InlinePredicate({"k3"})],
                      [key |-> "k3", isRelevant |-> NoPredicate] >>
    /\ engineOut.keys = <<"k3", "k2", "k1">>

\* C23: getDependencyOrder returns, without raising, on every dependency
\* graph, cycles and self-references included, and the list it returns
\* holds every distinct key of the structure exactly once.
C23_OrderTerminates ==
    engineOut.op = "getDependencyOrder" =>
        engineOut.result /\ EachStructureKeyOnce(engineOut.keys)

\* C23 witness: k1 is listed twice in the structure and references itself,
\* k2 and k1 reference each other, and getDependencyOrder returned a list of
\* two keys.
C23_Witness ==
    /\ engineOut.op = "getDependencyOrder"
    /\ definitions = <<>>
    /\ structure = << [key |-> "k1", isRelevant |-> InlinePredicate({"k1", "k2"})],
                      [key |-> "k2", isRelevant |-> InlinePredicate({"k1"})],
                      [key |-> "k1", isRelevant |-> InlinePredicate({"k1", "k2"})] >>
    /\ engineOut.result
    /\ Len(engineOut.keys) = 2

\* the list is the list of the structure's keys with some items left out
InStructureOrder(list) ==
    \E f \in [1..Len(list) -> 1..Len(structure)] :
        /\ \A i \in 1..Len(list) : structure[f[i]].key = list[i]
        /\ \A i, j \in 1..Len(list) : i < j => f[i] < f[j]

\* the predicates of a key, on its definition and on its structure item,
\* are absent or true on the snapshot
VisibleOn(k, snapshot) ==
    /\ AbsentOrTrue(PredicateFor(definitions, k), snapshot)
    /\ AbsentOrTrue(PredicateFor(structure, k), snapshot)

\* C24: getVisibleSettings returns the keys of the structure that evaluate
\* to true on the snapshot and no other key, in the order of the structure,
\* and a second call on the unchanged snapshot returns the same list.
C24_VisibleSettings ==
    /\ [](engineOut.op = "getVisibleSettings" =>
            /\ {engineOut.keys[i] : i \in 1..Len(engineOut.keys)} =
                   {k \in StructureKeys : VisibleOn(k, engineOut.currentValues)}
            /\ InStructureOrder(engineOut.keys))
    /\ [][VisibleSettingsAgain => engineOut'.keys = engineOut.keys]_vars

\* C24 witness: k2 is hidden by its item predicate (it reads k3, which is
\* not set), k1 and k3 have no predicate; getVisibleSettings has been called
\* twice on the same snapshot and returned k1, k3.
C24_Witness ==
    /\ engineOut.op = "getVisibleSettings"
    /\ engineOut.ncalls = 2
    /\ definitions = <<>>
    /\ structure = << [key |-> "k1", isRelevant |-> NoPredicate],
                      [key |-> "k2", isRelevant |-> InlinePredicate({"k3"})],
                      [key |-> "k3", isRelevant |-> NoPredicate] >>
    /\ engineOut.currentValues = [k1 |-> TRUE, k2 |-> FALSE, k3 |-> FALSE]
    /\ engineOut.keys = <<"k1", "k3">>

\* C25: on a MemoryStorageAdapter, after any sequence of set, delete and
\* clear calls, get(k) returns the value of the latest set(k, v) that no
\* delete(k) or clear() followed, whatever string, number or boolean v is,
\* and null when there is none.
C25_MemoryIsValueMap ==
    (config = "memory" /\ adapterOut.op = "get") =>
        adapterOut.ret = written[adapterOut.key]

\* a full key of the backing map lies under the adapter's prefix
UnderPrefix(fk) == fk[1] = "pitz:"

\* what get(k) returns on a backing map
GetOn(store, k) ==
    IF config = "memory" THEN MemoryGet(store, k) ELSE LocalGet(store, k).ret

\* C26: clear() removes every entry whose full key starts with the
\* adapter's prefix and leaves every other entry of the backing map as it
\* was; afterwards get(k) returns null for every key set through the
\* adapter before.
C26_ClearFrame ==
    [][StorageClear =>
          /\ \A fk \in BackingKeys :
                 backing'[fk] = IF UnderPrefix(fk) THEN Null ELSE backing[fk]
          /\ \A k \in Keys : written[k] # Null => GetOn(backing', k) = Null]_vars

\* C26 witness: a LocalStorageAdapter has cleared; the clear removed the
\* entries of both setting keys, and the two entries of other code are
\* still in localStorage.
C26_Witness ==
    /\ config = "local"
    /\ adapterOut.op = "clear"
    /\ adapterOut.removed = {GetKey("a"), GetKey("b")}
    /\ \A fk \in ForeignKeys : backing[fk] = ForeignText

\* an entry is present and is not the text of a setting value
Corrupted(entry) ==
    entry # Null /\ entry \notin {Serialize(v) : v \in AdapterValues}

\* C27: LocalStorageAdapter.get on a corrupted entry (bytes that do not
\* parse, or a stored null) does not throw, returns null, and removes the
\* entry stored under prefix + key.
C27_CorruptedEntryPurged ==
    [][\A k \in Keys :
          (config = "local" /\ StorageGet(k) /\ Corrupted(backing[GetKey(k)]))
              => /\ ~adapterOut'.threw
                 /\ adapterOut'.ret = Null
                 /\ backing'[GetKey(k)] = Null]_vars

\* a step of the chain that finishes the setting being defined: setting(),
\* tab() or build() called on the SettingBuilder
FinishesSetting ==
    /\ builder.at = "setting"
    /\ \/ \E key \in SettingKeyInputs : BuilderSetting(key)
       \/ \E tab \in TabInputs : BuilderTab(tab)
       \/ Build

\* the key is empty, the type is unset or the default value is absent
Incomplete(d) == d.key = "" \/ d.type = "none" \/ d.defaultValue = Null

\* C28: finishing a setting whose key is empty, whose type is unset or whose
\* default value is absent throws an error that names the key and adds
\* nothing to the configuration; any other setting, one with a falsy
\* default value included, is accepted and added.
C28_IncompleteSettingThrows ==
    [][FinishesSetting =>
          IF Incomplete(builder.definition)
          THEN /\ builderOut'.threw
               /\ builderOut'.error.key = builder.definition.key
               /\ builder'.definitions = builder.definitions
               /\ builder'.tabs = builder.tabs
          ELSE /\ ~builderOut'.threw
               /\ builder'.definitions =
                      Append(builder.definitions, builder.definition)]_vars

\* C28 witness: k1 was declared with the default value 0 and accepted; k2
\* was then declared and left incomplete, and build threw an error naming
\* k2, leaving k1 the only definition.
C28_Witness ==
    /\ builderOut.op = "build"
    /\ builderOut.threw
    /\ builderOut.error.key = "k2"
    /\ builder.definitions =
           << [key |-> "k1", type |-> "number", defaultValue |-> VNum(0)] >>

SetOf(list) == {list[i] : i \in 1..Len(list)}

\* the keys the structure items of a configuration reference
ReferencedSet(cfg) ==
    UNION { UNION { SetOf(cfg.tabs[i].groups[j].settings) :
                      j \in 1..Len(cfg.tabs[i].groups) } :
              i \in 1..Len(cfg.tabs) }

\* the keys the definitions of a configuration have
DefinedSet(cfg) == {cfg.definitions[i].key : i \in 1..Len(cfg.definitions)}

\* C29: buildWithValidation does not throw, returns the configuration
\* build() returns, and computes missing = the keys referenced by a
\* structure item that have no definition and unused = the definition
\* keys that no structure item references, which it only warns about.
C29_ValidationWarnsOnly ==
    builderOut.op = "buildWithValidation" =>
        LET cfg == [definitions |-> builder.definitions, tabs |-> builder.tabs] IN
        /\ ~builderOut.threw
        /\ builderOut.config = cfg
        /\ SetOf(builderOut.missing) = ReferencedSet(cfg) \ DefinedSet(cfg)
        /\ SetOf(builderOut.unused) = DefinedSet(cfg) \ ReferencedSet(cfg)

\* C29 witness: k1 is defined and referenced by no item, the only group
\* references k2, which has no definition; buildWithValidation returned
\* the configuration with missing = k2 and unused = k1.
C29_Witness ==
    /\ builderOut.op = "buildWithValidation"
    /\ ~builderOut.threw
    /\ Len(builderOut.config.tabs) = 1
    /\ builderOut.missing = <<"k2">>
    /\ builderOut.unused = <<"k1">>

\* C30: a chain that ends with build() returns the definitions of the
\* settings it declared, as many and in the order of their declaration,
\* and the tabs it declared, as many, in order, each with the groups
\* declared under it.
C30_BuildReturnsDeclared ==
    (builderOut.op = "build" /\ ~builderOut.threw) =>
        /\ [i \in 1..Len(builderOut.config.definitions) |->
               builderOut.config.definitions[i].key] = declared.keys
        /\ builderOut.config.tabs = declared.tabs

\* C30 witness: the chain declared the setting k1 and then the tab t1 with
\* the group g1 of k1 and k3, and build returned one definition and one
\* tab holding that group.
C30_Witness ==
    /\ builderOut.op = "build"
    /\ ~builderOut.threw
    /\ declared.keys = <<"k1">>
    /\ Len(builderOut.config.definitions) = 1
    /\ builderOut.config.tabs =
           << [id |-> "t1", label |-> "T1",
               groups |-> << [title |-> "g1", settings |-> <<"k1", "k3">>] >>] >>

\* C31: on every snapshot allOf is the conjunction of its conditions (true
\* of none), anyOf their disjunction (false of none), not the negation,
\* always true and never false; and not(allOf(a, b)) returns what
\* anyOf(not(a), not(b)) returns.
C31_BooleanConnectives ==
    templateOut.called =>
        LET fn == templateOut.fn
            s == templateOut.settings
            r == templateOut.result
            Of(c) == CallCondition(c, s)
        IN  /\ fn.op = "allOf" => (r <=> \A i \in 1..Len(fn.args) : Of(fn.args[i]))
            /\ fn.op = "anyOf" => (r <=> \E i \in 1..Len(fn.args) : Of(fn.args[i]))
            /\ fn.op = "not" => (r <=> ~Of(fn.args[1]))
            /\ fn.op = "always" => r
            /\ fn.op = "never" => ~r
            /\ (fn.op = "not" /\ fn.args[1].op = "allOf" /\ Len(fn.args[1].args) = 2
                   /\ \A i \in 1..2 : fn.args[1].args[i] \in Leaves)
                  => (r <=> Of(TAnyOf(<<TNot(fn.args[1].args[1]),
                                        TNot(fn.args[1].args[2])>>)))

\* C31 witness: not(allOf(dependsOn(k1), dependsOn(k2))) was called on a
\* snapshot where k1 is set and k2 is not, and returned true.
C31_Witness ==
    /\ templateOut.called
    /\ templateOut.fn = TNot(TAllOf(<<TDependsOn("k1"), TDependsOn("k2")>>))
    /\ templateOut.settings = [k1 |-> TRUE, k2 |-> FALSE, k3 |-> FALSE]
    /\ templateOut.result

\* the updater a step of the store hands to set: the pending one when the
\* throttle window is open (only its timer applies then), else the one of
\* the call accepted in this step
AppliedInStep ==
    IF thrOpen THEN thrPending ELSE UpdaterOf(lastEvent'.op, lastEvent'.upd)

\* C32: every change of the snapshot is the application of one whole batch:
\* after the step every key of the batch holds the batch's value, so no
\* snapshot (and no notification) shows part of a setValues or
\* resetAllToDefaults batch.
C32_BatchAppliedWhole ==
    [][values' # values =>
          \A k \in Keys :
              AppliedInStep.upd[k] # Null => values'[k] = AppliedInStep.upd[k]]_vars

\* C32 witness: a setValues call with values for both keys has been accepted
\* and the snapshot holds both.
C32_Witness ==
    /\ lastEvent.op = "setValues"
    /\ lastEvent.res = "accepted"
    /\ \A k \in Keys : lastEvent.upd[k] # Null /\ values[k] = lastEvent.upd[k]

BatchOps == {"setValues", "resetAllToDefaults"}

\* the last call is a batch whose persistence failed, and it is the only
\* call made on the store besides one registerController per controller, so
\* storage held nothing when it was made
OnlyBatchFailed ==
    /\ lastEvent.op \in BatchOps
    /\ lastEvent.res = "failed"
    /\ nops = 1 + Cardinality(everRegistered)

\* C33: a batch one of whose storage.set calls failed has left nothing in
\* storage: every key of the batch still holds what it held before the
\* call (here: nothing).
C33_RejectedBatchNotStored ==
    OnlyBatchFailed =>
        \A k \in Keys : lastEvent.upd[k] # Null => storage[k] = Null

\* C34: the error recorded by a rejected call outlives the trailing apply of
\* a write accepted before it: when the latest operation on the store was
\* rejected, the throttle timer leaves error non-null.
C34_TrailingApplyKeepsError ==
    [][(ThrottleTimer /\ lastEvent.res \in {"rejected", "failed"}
                      /\ error # "null")
          => error' # "null"]_vars

\* C35: every key named in an error of validateRelevanceTree lies on a
\* cycle of the dependency graph; a key that only leads into a cycle, or
\* that is reached after a cycle was found elsewhere, is not named.
C35_OnlyCycleKeysNamed ==
    engineOut.op = "validateRelevanceTree" =>
        \A i \in 1..Len(engineOut.errors) : OnCycle(engineOut.errors[i])

\* the text of the predicate holds the key as a literal
TextNames(fn, key) == fn.src = "inline" /\ key \in fn.reads

\* the list holds each key of the structure whose definition-level or
\* structure-level predicate names changedKey as often as the structure
\* lists it, and no other key
ExactlyTheDependents(list, changedKey) ==
    \A k \in SettingKeys :
        Occurrences(list, k) =
            IF /\ k \in StructureKeys
               /\ \/ TextNames(PredicateFor(definitions, k), changedKey)
                  \/ TextNames(PredicateFor(structure, k), changedKey)
            THEN Occurrences(ExtractAllKeys(structure), k)
            ELSE 0

\* C36: getDependentSettings(changedKey) returns exactly the keys of the
\* structure whose definition-level or structure-level predicate references
\* changedKey in its text, each as often as the structure lists it and no
\* key absent from the structure; getRelevanceTree has an entry for every
\* key of the structure and that entry is this list.
C36_DependentsExact ==
    /\ engineOut.op = "getDependentSettings" =>
           ExactlyTheDependents(engineOut.keys, engineOut.key)
    /\ engineOut.op = "getRelevanceTree" =>
           /\ engineOut.result
           /\ engineOut.key \in StructureKeys =>
                  ExactlyTheDependents(engineOut.keys, engineOut.key)

\* C36 witness: k1 is listed twice in the structure and only its
\* structure-level predicate names k2, k2 has only a definition-level
\* predicate, which names k1, and getDependentSettings("k2") returned k1
\* twice.
C36_Witness ==
    /\ engineOut.op = "getDependentSettings"
    /\ engineOut.key = "k2"
    /\ ExtractAllKeys(structure) = <<"k1", "k2", "k1">>
    /\ PredicateFor(definitions, "k1") = NoPredicate
    /\ PredicateFor(structure, "k2") = NoPredicate
    /\ PredicateFor(definitions, "k2") = InlinePredicate({"k1"})
    /\ engineOut.keys = <<"k1", "k1">>

\* C37: when initializeSettings has run to its end with a storage adapter,
\* the snapshot holds for every controller of the provider the value
\* storage held for its key at the start (false, 0 and the empty string
\* included) and the controller's default when storage held none; and at
\* no time has a value storage held at the start been replaced in storage.
C37_RestoresPersisted ==
    config # "none" =>
        \A k \in Keys :
            provider.controllers[k] # NoController =>
                /\ provider.held[k] # Null =>
                       HeldValue(config, backing, k) = provider.held[k]
                /\ provider.pc = "done" =>
                       values[k] = IF provider.held[k] # Null
                                   THEN provider.held[k]
                                   ELSE provider.controllers[k].defaultValue

\* the keys of the definitions and the ids of the tabs of a configuration
DefinitionKeys(cfg) == [i \in 1..Len(cfg.definitions) |-> cfg.definitions[i].key]

TabIds(tabs) == [i \in 1..Len(tabs) |-> tabs[i].id]

\* build() returned a configuration: at the end of the chain without
\* throwing, or on the root builder after a chain whose last setting, tab
\* or group is complete
BuildReturned ==
    \/ builderOut.op = "build" /\ ~builderOut.threw
    \/ builderOut.op = "rootBuild" /\ ~FinishToRoot(builder).threw

\* C38: the configuration build() returns, called at the end of the chain
\* or on the root SettingsBuilder after the chain, holds every setting
\* started with setting() and every tab started with tab() as often as it
\* was started, hence once when started once.
C38_EveryStartedIncludedOnce ==
    BuildReturned =>
        /\ \A key \in SettingKeyInputs :
               Occurrences(DefinitionKeys(builderOut.config), key) =
                   Occurrences(declared.keys, key)
        /\ \A tab \in TabInputs :
               Occurrences(TabIds(builderOut.config.tabs), tab.id) =
                   Occurrences(TabIds(declared.tabs), tab.id)

====
